---- MODULE Spec2Model ----
(***************************************************************************)
(* Attendance kiosk: the identity-resolution pipeline (processAttendance   *)
(* of AttendanceTracker), the attendance store hook (useAttendanceStore)   *)
(* and the matchers (useFaceDetection, useImageMatching).                  *)
(*                                                                         *)
(* Numbers.  Confidences are fixed-point hundredths (1.0 = 100).  The      *)
(* vectors and images of the model are chosen so that every square root    *)
(* and every division the code performs is exact in hundredths.            *)
(*                                                                         *)
(* React.  A state variable of a component holds the value of the last     *)
(* setState call.  A callback reads the values of the render in which it   *)
(* was created: an asynchronous run keeps the snapshot (snap) of the       *)
(* render in which its capture was made.                                   *)
(***************************************************************************)
EXTENDS Integers, Sequences, FiniteSets, TLC

\* ------------------------------------------------------------------ bounds
MaxCaptures == 2   \* captures handed to processAttendance in one behaviour
MaxRuns     == 2   \* pipeline runs that can be in flight at once
MaxDay      == 1   \* last calendar day of the clock
MaxCatalog  == 2   \* longest catalog handed to a matcher on its own
MaxBatch    == 3   \* store calls issued in one batch on its own

\* --------------------------------------------------------- values of JS
\* Every JS value is a tuple, so that any two of them can be compared:
\* null, undefined and strings are 1-tuples, ids and dates tagged pairs,
\* e-mails tuples of characters, vectors and pictures tuples of numbers.
NULL  == <<"null">>
UNDEF == <<"undefined">>
EMPTY == <<"">>
Str(s)  == <<s>>
Date(t) == <<"date", t>>
Uuid(n) == <<"id", n>>
StatusIn  == Str("IN")
StatusOut == Str("OUT")
TypeEntry == Str("ENTRY")
TypeExit  == Str("EXIT")

\* JS truthiness of the values the model uses
Truthy(x) == x \notin {NULL, UNDEF, EMPTY}

\* a || b
OrElse(a, b) == IF Truthy(a) THEN a ELSE b

\* {...a, ...b}: own properties of b win, an explicit undefined included
Spread(a, b) == [k \in (DOMAIN a) \cup (DOMAIN b) |-> IF k \in DOMAIN b THEN b[k] ELSE a[k]]

\* o.k of an object that may lack the property
Get(o, k) == IF k \in DOMAIN o THEN o[k] ELSE UNDEF

Abs(x) == IF x < 0 THEN -x ELSE x

\* Math.sqrt on the perfect squares the model produces
Isqrt(n) == CHOOSE r \in 0..n : r * r <= n /\ n < (r + 1) * (r + 1)

RECURSIVE SumSeq(_)
SumSeq(s) == IF s = <<>> THEN 0 ELSE Head(s) + SumSeq(Tail(s))

\* String.prototype.toLowerCase on strings held as tuples of characters
LowerChar(c) == IF c = "A" THEN "a" ELSE IF c = "B" THEN "b" ELSE c

\* toLowerCase left out of the comparison
toLowerCase_Identity(s) == s

toLowerCase(s) == IF s = UNDEF THEN UNDEF ELSE [i \in 1..Len(s) |-> LowerChar(s[i])]

\* ---------------------------------------------------------------- inputs
\* Captured stills, as the RGB channels of the resampled picture (two pixels).
ImgA == <<0, 0, 0, 0, 0, 0>>
ImgB == <<153, 153, 0, 0, 0, 0>>          \* 0.8 from ImgA
ImgC == <<153, 153, 153, 0, 0, 0>>        \* 0.7 from ImgA, 0.9 from ImgB
ImgD == <<255, 255, 255, 255, 255, 255>>  \* 0.0 from ImgA
Images == {ImgA, ImgB, ImgC, ImgD}
\* the stills the camera hands to the pipeline
Captures == {ImgA, ImgC, ImgD}

\* Face descriptors, in hundredths.
FaceP == <<0, 0>>
FaceQ == <<24, 32>>    \* distance 0.40 from FaceP: confidence 0.60
FaceR == <<27, 36>>    \* distance 0.45 from FaceP, 0.05 from FaceQ
Faces == {FaceP, FaceQ, FaceR}

\* Embeddings, all of norm 2, and one of another length.
EmbX == <<1, 1, 1, 1>>
EmbY == <<2, 0, 0, 0>>      \* cosine 0.5 with EmbX: confidence 0.75
EmbZ == <<-1, -1, -1, -1>>  \* cosine -1 with EmbX: confidence 0
EmbS == <<2, 0>>            \* length 2
Embeddings == {EmbX, EmbY, EmbZ, EmbS}

\* What the extractors see in each still (the networks are deterministic).
faceOf(img) ==
  IF img \in {ImgA, ImgD} THEN FaceP ELSE IF img = ImgB THEN FaceQ ELSE FaceR
embeddingOf(img) ==
  IF img \in {ImgA, ImgD} THEN EmbX ELSE IF img = ImgB THEN EmbY ELSE EmbZ

\* Form input: name and e-mail.
MailA  == <<"a", "@", "x">>
MailA2 == <<"A", "@", "x">>
MailB  == <<"b", "@", "x">>
\* what is typed into the form in this session
FormInputs == {[name |-> Str("Ann"), email |-> MailA2],
               [name |-> Str("Bob"), email |-> MailB]}

\* -------------------------------------------------------------- matchers
FaceThreshold   == 60   \* 0.6
ImageThreshold  == 75   \* 0.75
SimpleThreshold == 80   \* 0.8
SameDayThreshold == 70  \* 0.7

\* faceapi.euclideanDistance, in hundredths
euclideanDistance(a, b) ==
  Isqrt(SumSeq([i \in 1..Len(a) |-> (a[i] - b[i]) * (a[i] - b[i])]))

compareFaces(descriptor1, descriptor2) ==
  IF ~Truthy(descriptor1) \/ ~Truthy(descriptor2) THEN 0
  ELSE LET distance == euclideanDistance(descriptor1, descriptor2)
           c == 100 - distance
       IN IF c > 0 THEN c ELSE 0

\* a forEach that replaces bestMatch on an equal confidence
RECURSIVE ScanBest_LastWins(_, _)
ScanBest_LastWins(cands, bestMatch) ==
  IF cands = <<>> THEN bestMatch
  ELSE ScanBest_LastWins(Tail(cands),
                         IF Head(cands).confidence >= bestMatch.confidence
                         THEN Head(cands) ELSE bestMatch)

\* the forEach of both matchers: the first of the largest confidences, above 0
RECURSIVE ScanBest(_, _)
ScanBest(cands, bestMatch) ==
  IF cands = <<>> THEN bestMatch
  ELSE ScanBest(Tail(cands),
                IF Head(cands).confidence > bestMatch.confidence
                THEN Head(cands) ELSE bestMatch)

NoBest == [id |-> EMPTY, confidence |-> 0]
NoMatch == [isMatch |-> FALSE, confidence |-> 0, attendeeId |-> UNDEF]

findMatchingFace_AtLeast(newDescriptor, existingDescriptors, isLoaded) ==
  IF ~Truthy(newDescriptor) \/ ~isLoaded THEN NoMatch
  ELSE LET cands == [i \in 1..Len(existingDescriptors) |->
                       [id |-> existingDescriptors[i].id,
                        confidence |-> compareFaces(newDescriptor,
                                                    existingDescriptors[i].descriptor)]]
           bestMatch == ScanBest(cands, NoBest)
       IN [isMatch |-> bestMatch.confidence >= FaceThreshold,
           confidence |-> bestMatch.confidence,
           attendeeId |-> IF bestMatch.confidence >= FaceThreshold
                          THEN bestMatch.id ELSE UNDEF]

findMatchingFace(newDescriptor, existingDescriptors, isLoaded) ==
  IF ~Truthy(newDescriptor) \/ ~isLoaded THEN NoMatch
  ELSE LET cands == [i \in 1..Len(existingDescriptors) |->
                       [id |-> existingDescriptors[i].id,
                        confidence |-> compareFaces(newDescriptor,
                                                    existingDescriptors[i].descriptor)]]
           bestMatch == ScanBest(cands, NoBest)
       IN [isMatch |-> bestMatch.confidence > FaceThreshold,
           confidence |-> bestMatch.confidence,
           attendeeId |-> IF bestMatch.confidence > FaceThreshold
                          THEN bestMatch.id ELSE UNDEF]

\* cosine similarity mapped to [0, 1], in hundredths
compareImages(features1, features2) ==
  IF ~Truthy(features1) \/ ~Truthy(features2) \/ Len(features1) # Len(features2) THEN 0
  ELSE LET n == Len(features1)
           dotProduct == SumSeq([i \in 1..n |-> features1[i] * features2[i]])
           norm1 == SumSeq([i \in 1..n |-> features1[i] * features1[i]])
           norm2 == SumSeq([i \in 1..n |-> features2[i] * features2[i]])
           similarity == (dotProduct * 100) \div (Isqrt(norm1) * Isqrt(norm2))
           confidence == (similarity + 100) \div 2
       IN IF confidence > 0 THEN confidence ELSE 0

findMatchingImage(newImageFeatures, existingImages, isLoaded) ==
  IF ~Truthy(newImageFeatures) \/ ~isLoaded THEN NoMatch
  ELSE LET cands == [i \in 1..Len(existingImages) |->
                       [id |-> existingImages[i].id,
                        confidence |-> compareImages(newImageFeatures,
                                                     existingImages[i].features)]]
           bestMatch == ScanBest(cands, NoBest)
       IN [isMatch |-> bestMatch.confidence > ImageThreshold,
           confidence |-> bestMatch.confidence,
           attendeeId |-> IF bestMatch.confidence > ImageThreshold
                          THEN bestMatch.id ELSE UNDEF]

\* mean absolute RGB difference of the two resampled pictures, in hundredths
simpleImageCompare(img1, img2) ==
  LET totalDiff == SumSeq([i \in 1..Len(img1) |-> Abs(img1[i] - img2[i])])
      maxDiff == Len(img1) * 255
      similarity == 100 - (totalDiff * 100) \div maxDiff
  IN IF similarity > 0 THEN similarity ELSE 0

\* a pixel fallback that accepts the threshold itself
simpleFallback_AtLeast(imageData, profs) ==
  LET withImage == SelectSeq(profs, LAMBDA p : Truthy(p.lastImage))
      cands == [i \in 1..Len(withImage) |->
                  [id |-> withImage[i].id,
                   confidence |-> simpleImageCompare(imageData, withImage[i].lastImage)]]
      bestSimpleMatch == ScanBest(cands, NoBest)
  IN IF bestSimpleMatch.confidence >= SimpleThreshold
     THEN [isMatch |-> TRUE, confidence |-> bestSimpleMatch.confidence,
           attendeeId |-> bestSimpleMatch.id]
     ELSE NoMatch

\* the pixel fallback of processAttendance over the profiles of its render
simpleFallback(imageData, profs) ==
  LET withImage == SelectSeq(profs, LAMBDA p : Truthy(p.lastImage))
      cands == [i \in 1..Len(withImage) |->
                  [id |-> withImage[i].id,
                   confidence |-> simpleImageCompare(imageData, withImage[i].lastImage)]]
      bestSimpleMatch == ScanBest(cands, NoBest)
  IN IF bestSimpleMatch.confidence > SimpleThreshold
     THEN [isMatch |-> TRUE, confidence |-> bestSimpleMatch.confidence,
           attendeeId |-> bestSimpleMatch.id]
     ELSE NoMatch

\* ----------------------------------------------------------------- store
\* useAttendanceStore.  Every operation is a function of the collections of
\* the render in which the calling callback was created.

\* localStorage: one blob per key.  kind is "absent" (getItem gives null),
\* "array" (the text of a JSON array, its elements held parsed), "nulls" (a
\* JSON array with a null element), "value" (JSON that is no array) or
\* "text" (no JSON at all).
AbsentBlob == [kind |-> "absent", items |-> <<>>]

\* JSON.stringify of one object: undefined properties are dropped, a Date
\* becomes its ISO string and a vector (after Array.from) a plain array
JsonValue(v) ==
  IF Len(v) = 2 /\ v[1] = "date" THEN <<"iso", v[2]>> ELSE v
JsonObject(o) ==
  [k \in {f \in DOMAIN o : o[f] # UNDEF} |-> JsonValue(o[k])]
JsonVector(v) == IF Truthy(v) THEN <<"array", v>> ELSE UNDEF

\* saveRecords handed the records of the render, not the updated ones
saveRecords_Previous(newRecords) ==
  [kind |-> "array",
   items |-> [i \in 1..Len(newRecords) - 1 |-> JsonObject(newRecords[i + 1])]]

saveRecords(newRecords) ==
  [kind |-> "array",
   items |-> [i \in 1..Len(newRecords) |->
                JsonObject(Spread(newRecords[i],
                  [imageFeatures |-> JsonVector(Get(newRecords[i], "imageFeatures")),
                   faceDescriptor |-> JsonVector(Get(newRecords[i], "faceDescriptor"))]))]]

saveProfiles(newProfiles) ==
  [kind |-> "array",
   items |-> [i \in 1..Len(newProfiles) |->
                JsonObject(Spread(newProfiles[i],
                  [imageFeatures |-> JsonVector(Get(newProfiles[i], "imageFeatures")),
                   faceDescriptor |-> JsonVector(Get(newProfiles[i], "faceDescriptor"))]))]]

\* addRecord(record): the record it returns and the sequence it sets and saves
addRecord(recs, record, id, today) ==
  LET newRecord == Spread(record, [id |-> id, timestamp |-> Date(today)])
  IN [newRecord |-> newRecord, updatedRecords |-> <<newRecord>> \o recs]

ProfileDefaults ==
  [name |-> EMPTY, email |-> EMPTY, lastImage |-> EMPTY, currentStatus |-> StatusOut]

\* an updateProfile that never looks for the id
updateProfile_AlwaysAppends(profs, profileData) ==
  Append(profs, Spread(Spread(ProfileDefaults, profileData), [id |-> profileData.id]))

\* updateProfile(profileData): the sequence it sets and saves
updateProfile(profs, profileData) ==
  LET hits == {i \in 1..Len(profs) : profs[i].id = profileData.id}
  IN IF hits # {}
     THEN LET existingIndex == CHOOSE i \in hits : \A j \in hits : i <= j
          IN [i \in 1..Len(profs) |->
                IF i = existingIndex THEN Spread(profs[i], profileData) ELSE profs[i]]
     ELSE Append(profs, Spread(Spread(ProfileDefaults, profileData),
                               [id |-> profileData.id]))

\* Array.prototype.find, given the elements that pass the test
FindFirst(hits) == IF hits = <<>> THEN UNDEF ELSE Head(hits)

getProfile(profs, id) == FindFirst(SelectSeq(profs, LAMBDA p : p.id = id))

\* records.slice(0, limit)
getRecentRecords(recs, limit) ==
  SubSeq(recs, 1, IF limit < Len(recs) THEN limit ELSE Len(recs))

getImageFeatures(profs) ==
  LET having == SelectSeq(profs, LAMBDA p : Truthy(Get(p, "imageFeatures")))
  IN [i \in 1..Len(having) |-> [id |-> having[i].id, features |-> having[i].imageFeatures]]

\* the store's return object, line 148: getFaceDescriptors: getImageFeatures
getFaceDescriptors(profs) == getImageFeatures(profs)

\* clearAllData without the two removeItem calls
clearAllData_StateOnly(store) ==
  [store EXCEPT !.records = <<>>, !.profiles = <<>>]

\* clearAllData(): the collections it sets and what it leaves under the keys
clearAllData(store) ==
  [records |-> <<>>, profiles |-> <<>>,
   blobRecords |-> AbsentBlob, blobProfiles |-> AbsentBlob]

\* the inline catalog of face descriptors of processAttendance
existingDescriptorsOf(profs) ==
  LET having == SelectSeq(profs, LAMBDA p : Truthy(Get(p, "faceDescriptor")))
  IN [i \in 1..Len(having) |-> [id |-> having[i].id, descriptor |-> having[i].faceDescriptor]]

\* a lookup that takes today's latest ENTRY record, whose ever it is
getTodayEntryRecord_AnyAttendee(recs, own, attendeeId, today) ==
  FindFirst(SelectSeq(recs, LAMBDA r : /\ r.type = TypeEntry
                                       /\ r.timestamp = Date(today)))

\* getTodayEntryRecord(attendeeId): the most recent ENTRY record of the
\* attendee made on the current calendar day.  own maps a record id to the
\* attendee the record was written for.
getTodayEntryRecord(recs, own, attendeeId, today) ==
  FindFirst(SelectSeq(recs, LAMBDA r : /\ r.id \in DOMAIN own
                                       /\ own[r.id] = attendeeId
                                       /\ r.type = TypeEntry
                                       /\ r.timestamp = Date(today)))

\* new Date(v) of a parsed property: an ISO string gives its date, a
\* missing property the Invalid Date
InvalidDate == <<"invalid date">>
newDate(v) == IF Len(v) = 2 /\ v[1] = "iso" THEN Date(v[2]) ELSE InvalidDate

\* JSON.parse(blob).map(...) throws: the text is no JSON, the value has no
\* map, or an element is null and its properties cannot be read
loadThrows(blob) == blob.kind \in {"text", "value", "nulls"}

\* the mount effect, lines 19-27: the records blob parsed and decoded
loadRecords(blob) ==
  IF blob.kind # "array" THEN <<>>
  ELSE [i \in 1..Len(blob.items) |->
          Spread(blob.items[i],
            [timestamp |-> newDate(Get(blob.items[i], "timestamp")),
             imageFeatures |-> IF Truthy(Get(blob.items[i], "imageFeatures"))
                               THEN blob.items[i].imageFeatures[2] ELSE UNDEF,
             faceDescriptor |-> IF Truthy(Get(blob.items[i], "faceDescriptor"))
                                THEN blob.items[i].faceDescriptor[2] ELSE UNDEF])]

\* loadDate without new Date: the ISO text is kept
loadDate_KeepsText(v) == IF Truthy(v) THEN v ELSE UNDEF

\* a Date property of a parsed profile, or undefined
loadDate(v) == IF Truthy(v) THEN Date(v[2]) ELSE UNDEF

\* the mount effect, lines 29-38: the profiles blob parsed and decoded
loadProfiles(blob) ==
  IF blob.kind # "array" THEN <<>>
  ELSE [i \in 1..Len(blob.items) |->
          Spread(blob.items[i],
            [lastEntry |-> loadDate(Get(blob.items[i], "lastEntry")),
             lastExit |-> loadDate(Get(blob.items[i], "lastExit")),
             imageFeatures |-> IF Truthy(Get(blob.items[i], "imageFeatures"))
                               THEN blob.items[i].imageFeatures[2] ELSE UNDEF,
             faceDescriptor |-> IF Truthy(Get(blob.items[i], "faceDescriptor"))
                                THEN blob.items[i].faceDescriptor[2] ELSE UNDEF])]

\* the mount effect, lines 14-42: one try over both blobs, the records
\* first.  What the two collections hold once the effect has run.
loadStore(savedRecords, savedProfiles) ==
  IF loadThrows(savedRecords) THEN [records |-> <<>>, profiles |-> <<>>]
  ELSE [records |-> loadRecords(savedRecords),
        profiles |-> IF loadThrows(savedProfiles) THEN <<>>
                     ELSE loadProfiles(savedProfiles)]

\* ----------------------------------------------------------------- state
VARIABLES
  records,              \* useAttendanceStore: records state, newest first
  profiles,             \* useAttendanceStore: profiles state
  blobRecords,          \* localStorage['attendance_records']
  blobProfiles,         \* localStorage['attendee_profiles']
  step,                 \* AttendanceTracker: step
  isProcessing,         \* AttendanceTracker: isProcessing
  currentUser,          \* AttendanceTracker: currentUser (name and email)
  faceDetectionLoaded,  \* useFaceDetection: isLoaded
  imageMatchingLoaded,  \* useImageMatching: isLoaded
  runs,                 \* the processAttendance calls in flight, by slot
  started,              \* captures handed to processAttendance so far
  today,                \* the calendar day of the clock
  owner,                \* record id -> the attendee the record was written for
  last,                 \* the last run that ended, or the last clear
  view,                 \* a client of the store hook: the render it holds
  calls,                \* a client of the store hook: calls since that render
  probe,                \* a matcher called on its own: input and result
  camera,               \* useCamera on its own: state, render, device
  form                  \* AttendanceForm on its own: the fields typed

storeVars == <<records, profiles, blobRecords, blobProfiles>>
uiVars    == <<step, isProcessing, currentUser>>
modelVars == <<faceDetectionLoaded, imageMatchingLoaded>>
appVars   == <<storeVars, uiVars, modelVars, runs, started, today, owner, last>>
vars      == <<appVars, view, calls, probe, camera, form>>

Slots == 1..MaxRuns

NoUser == [name |-> UNDEF, email |-> UNDEF]

IdleRun == [pc |-> "idle"]

\* the pcs of a run between the capture and its outcome
Resolving == {"decoding", "face", "features", "pixel", "gate"}

NoLast == [op |-> "none"]
NoProbe == [kind |-> "none"]
NoCalls == [issued |-> <<>>, n |-> 0]
NoView  == [records |-> <<>>, profiles |-> <<>>]
\* useCamera before it mounts
NoCamera == [op |-> "none"]
\* AttendanceForm before it mounts
NoForm == [op |-> "none"]

\* -------------------------------------------------------------- pipeline
\* processAttendance.  A run is the call's local state: the snapshot of the
\* render the callback closed over, the locals of img.onload, and a log of
\* what the run asked for (asked*, compared*, wrote*).

NoRecord == UNDEF   \* find() that found nothing

newRun(n, imageData, snap, blobs) ==
  [pc |-> "decoding", n |-> n, imageData |-> imageData, snap |-> snap,
   faceDescriptor |-> NULL, imageFeatures |-> NULL, matchResult |-> NoMatch,
   userId |-> UNDEF, entryType |-> UNDEF, existing |-> NoRecord,
   todayEntry |-> NoRecord, via |-> "none", stage |-> "none",
   askedFace |-> FALSE, askedFeatures |-> FALSE, comparedPixels |-> FALSE,
   consultedEmail |-> FALSE, comparedGate |-> FALSE, similarity |-> UNDEF,
   wroteRecords |-> 0, wroteProfiles |-> 0, outcome |-> "none", before |-> blobs]

\* a decision that looks for today's check-in whatever the transition
decide_GatesEntry(r, own, day) ==
  IF r.matchResult.isMatch /\ Truthy(r.matchResult.attendeeId)
  THEN LET userId == r.matchResult.attendeeId
           existingProfile == getProfile(r.snap.profiles, userId)
           entryType == IF existingProfile.currentStatus = StatusOut
                        THEN TypeEntry ELSE TypeExit
           todayEntry == getTodayEntryRecord(r.snap.records, own, userId, day)
       IN [r EXCEPT !.userId = userId, !.entryType = entryType,
                    !.existing = existingProfile, !.todayEntry = todayEntry,
                    !.via = "match",
                    !.pc = IF todayEntry # NoRecord THEN "gate" ELSE "commit"]
  ELSE LET existingProfileByEmail ==
             LET hits == SelectSeq(r.snap.profiles,
                           LAMBDA p : toLowerCase(p.email)
                                        = toLowerCase(r.snap.currentUser.email))
             IN IF hits = <<>> THEN NoRecord ELSE Head(hits)
       IN IF existingProfileByEmail # NoRecord
          THEN LET userId == existingProfileByEmail.id
                   entryType == IF existingProfileByEmail.currentStatus = StatusOut
                                THEN TypeEntry ELSE TypeExit
                   todayEntry == getTodayEntryRecord(r.snap.records, own, userId, day)
               IN [r EXCEPT !.userId = userId, !.entryType = entryType,
                            !.existing = existingProfileByEmail,
                            !.todayEntry = todayEntry,
                            !.via = "email", !.consultedEmail = TRUE,
                            !.pc = IF todayEntry # NoRecord THEN "gate" ELSE "commit"]
          ELSE [r EXCEPT !.userId = Uuid(2 * r.n - 1), !.entryType = TypeEntry,
                         !.via = "new", !.consultedEmail = TRUE, !.pc = "commit"]

\* lines 191-300 up to the same-day comparison: identity and transition
decide(r, own, day) ==
  IF r.matchResult.isMatch /\ Truthy(r.matchResult.attendeeId)
  THEN LET userId == r.matchResult.attendeeId
           existingProfile == getProfile(r.snap.profiles, userId)
           entryType == IF existingProfile.currentStatus = StatusOut
                        THEN TypeEntry ELSE TypeExit
           todayEntry == IF entryType = TypeExit
                         THEN getTodayEntryRecord(r.snap.records, own, userId, day)
                         ELSE NoRecord
       IN [r EXCEPT !.userId = userId, !.entryType = entryType,
                    !.existing = existingProfile, !.todayEntry = todayEntry,
                    !.via = "match",
                    !.pc = IF todayEntry # NoRecord THEN "gate" ELSE "commit"]
  ELSE LET existingProfileByEmail ==
             LET hits == SelectSeq(r.snap.profiles,
                           LAMBDA p : toLowerCase(p.email)
                                        = toLowerCase(r.snap.currentUser.email))
             IN IF hits = <<>> THEN NoRecord ELSE Head(hits)
       IN IF existingProfileByEmail # NoRecord
          THEN LET userId == existingProfileByEmail.id
                   entryType == IF existingProfileByEmail.currentStatus = StatusOut
                                THEN TypeEntry ELSE TypeExit
                   todayEntry == IF entryType = TypeExit
                                 THEN getTodayEntryRecord(r.snap.records, own, userId, day)
                                 ELSE NoRecord
               IN [r EXCEPT !.userId = userId, !.entryType = entryType,
                            !.existing = existingProfileByEmail,
                            !.todayEntry = todayEntry,
                            !.via = "email", !.consultedEmail = TRUE,
                            !.pc = IF todayEntry # NoRecord THEN "gate" ELSE "commit"]
          ELSE [r EXCEPT !.userId = Uuid(2 * r.n - 1), !.entryType = TypeEntry,
                         !.via = "new", !.consultedEmail = TRUE, !.pc = "commit"]

\* lines 166-189: the pixel fallback is entered, or skipped
toPixel(r, own, day) ==
  IF ~r.matchResult.isMatch /\ Len(r.snap.profiles) > 0
     /\ SelectSeq(r.snap.profiles, LAMBDA p : Truthy(p.lastImage)) # <<>>
  THEN [r EXCEPT !.pc = "pixel", !.comparedPixels = TRUE]
  ELSE decide(r, own, day)

afterPixel(r, own, day) ==
  LET m == simpleFallback(r.imageData, r.snap.profiles)
  IN decide(IF m.isMatch THEN [r EXCEPT !.matchResult = m, !.stage = "pixel"] ELSE r,
            own, day)

\* toFeatures without the test of an earlier match
toFeatures_Always(r, own, day) ==
  IF r.snap.imageMatchingLoaded
  THEN [r EXCEPT !.pc = "features", !.askedFeatures = TRUE]
  ELSE toPixel(r, own, day)

\* lines 143-164: the embedding extractor is awaited, or skipped
toFeatures(r, own, day) ==
  IF ~r.matchResult.isMatch /\ r.snap.imageMatchingLoaded
  THEN [r EXCEPT !.pc = "features", !.askedFeatures = TRUE]
  ELSE toPixel(r, own, day)

afterFeatures(r, imageFeatures, own, day) ==
  LET r1 == [r EXCEPT !.imageFeatures = imageFeatures]
      imageMatchResult == findMatchingImage(imageFeatures,
                            getImageFeatures(r.snap.profiles),
                            r.snap.imageMatchingLoaded)
  IN toPixel(IF Truthy(imageFeatures) /\ imageMatchResult.isMatch
             THEN [r1 EXCEPT !.matchResult = imageMatchResult, !.stage = "features"]
             ELSE r1,
             own, day)

\* lines 117-141: the face detector is awaited, or skipped
afterLoad(r, own, day) ==
  IF r.snap.faceDetectionLoaded
  THEN [r EXCEPT !.pc = "face", !.askedFace = TRUE]
  ELSE toFeatures(r, own, day)

afterFace(r, faceDescriptor, own, day) ==
  LET r1 == [r EXCEPT !.faceDescriptor = faceDescriptor]
      existingDescriptors == existingDescriptorsOf(r.snap.profiles)
      result == findMatchingFace(faceDescriptor, existingDescriptors,
                                 r.snap.faceDetectionLoaded)
  IN toFeatures(IF Truthy(faceDescriptor) /\ Len(existingDescriptors) > 0
                   /\ result.isMatch
                THEN [r1 EXCEPT !.matchResult = result, !.stage = "face"]
                ELSE r1,
                own, day)

\* lines 203-218 and 248-263: the same-day comparison has resolved
\* afterGate that accepts above the threshold only
afterGate_Strict(r) ==
  LET similarity == simpleImageCompare(r.imageData, r.todayEntry.image)
  IN IF similarity <= SameDayThreshold
     THEN [r EXCEPT !.pc = "Rejected", !.outcome = "mismatch", !.comparedGate = TRUE,
                    !.similarity = similarity]
     ELSE [r EXCEPT !.pc = "commit", !.comparedGate = TRUE, !.similarity = similarity]

afterGate(r) ==
  LET similarity == simpleImageCompare(r.imageData, r.todayEntry.image)
  IN IF similarity < SameDayThreshold
     THEN [r EXCEPT !.pc = "Rejected", !.outcome = "mismatch", !.comparedGate = TRUE,
                    !.similarity = similarity]
     ELSE [r EXCEPT !.pc = "commit", !.comparedGate = TRUE, !.similarity = similarity]

\* the fields every variant of profileData sets
profileBase(r, day) ==
  IF r.via = "new"
  THEN [id |-> r.userId,
        name |-> OrElse(r.snap.currentUser.name, Str("Unknown User")),
        email |-> OrElse(r.snap.currentUser.email, Str("unknown@example.com")),
        lastImage |-> r.imageData,
        imageFeatures |-> r.imageFeatures,
        faceDescriptor |-> r.faceDescriptor]
  ELSE Spread(r.existing,
              [lastImage |-> r.imageData,
               imageFeatures |-> OrElse(r.imageFeatures, Get(r.existing, "imageFeatures")),
               faceDescriptor |-> OrElse(r.faceDescriptor,
                                         Get(r.existing, "faceDescriptor"))])

\* profileData that sets the time of the transition and leaves the status
profileDataOf_KeepsStatus(r, day) ==
  Spread(profileBase(r, day),
         IF r.via = "new" THEN [currentStatus |-> StatusIn, lastEntry |-> Date(day)]
         ELSE IF r.entryType = TypeEntry THEN [lastEntry |-> Date(day)]
         ELSE [lastExit |-> Date(day)])

\* profileData that leaves the status of a new profile to the store's default
profileDataOf_NewByDefault(r, day) ==
  Spread(profileBase(r, day),
         IF r.via = "new" THEN [lastEntry |-> Date(day)]
         ELSE IF r.entryType = TypeEntry
         THEN [currentStatus |-> StatusIn, lastEntry |-> Date(day)]
         ELSE [currentStatus |-> StatusOut, lastExit |-> Date(day)])

\* profileData that takes both vectors from the run, extracted or not
profileDataOf_ErasesVectors(r, day) ==
  Spread(profileDataOf_KeepsStatus(r, day),
         [currentStatus |-> IF r.entryType = TypeEntry THEN StatusIn ELSE StatusOut,
          imageFeatures |-> r.imageFeatures,
          faceDescriptor |-> r.faceDescriptor])

\* profileData that takes the name and the e-mail of the form in every branch
profileDataOf_FormIdentity(r, day) ==
  Spread(profileDataOf_KeepsStatus(r, day),
         [currentStatus |-> IF r.entryType = TypeEntry THEN StatusIn ELSE StatusOut,
          name |-> OrElse(r.snap.currentUser.name, Str("Unknown User")),
          email |-> OrElse(r.snap.currentUser.email, Str("unknown@example.com"))])

\* lines 220-227, 265-272, 284-293: profileData
profileDataOf(r, day) ==
  IF r.via = "new"
  THEN [id |-> r.userId,
        name |-> OrElse(r.snap.currentUser.name, Str("Unknown User")),
        email |-> OrElse(r.snap.currentUser.email, Str("unknown@example.com")),
        lastImage |-> r.imageData,
        currentStatus |-> StatusIn,
        lastEntry |-> Date(day),
        imageFeatures |-> r.imageFeatures,
        faceDescriptor |-> r.faceDescriptor]
  ELSE Spread(Spread(r.existing,
                     [lastImage |-> r.imageData,
                      currentStatus |-> IF r.entryType = TypeEntry
                                        THEN StatusIn ELSE StatusOut,
                      imageFeatures |-> OrElse(r.imageFeatures,
                                               Get(r.existing, "imageFeatures")),
                      faceDescriptor |-> OrElse(r.faceDescriptor,
                                                Get(r.existing, "faceDescriptor"))]),
              IF r.entryType = TypeEntry THEN [lastEntry |-> Date(day)]
                                         ELSE [lastExit |-> Date(day)])

\* storeWrites that returns after addRecord
storeWrites_RecordOnly(r, day) ==
  LET profileData == profileDataOf(r, day)
      added == addRecord(r.snap.records,
                         [name |-> profileData.name, email |-> profileData.email,
                          image |-> r.imageData, type |-> r.entryType,
                          imageFeatures |-> r.imageFeatures,
                          faceDescriptor |-> r.faceDescriptor],
                         Uuid(2 * r.n), day)
  IN [record |-> added.newRecord,
      records |-> added.updatedRecords,
      profiles |-> r.snap.profiles,
      profileData |-> profileData,
      wroteRecords |-> 1, wroteProfiles |-> 0]

\* lines 317-328: addRecord, then updateProfile, of the run's render
storeWrites(r, day) ==
  LET profileData == profileDataOf(r, day)
      added == addRecord(r.snap.records,
                         [name |-> profileData.name, email |-> profileData.email,
                          image |-> r.imageData, type |-> r.entryType,
                          imageFeatures |-> r.imageFeatures,
                          faceDescriptor |-> r.faceDescriptor],
                         Uuid(2 * r.n), day)
  IN [record |-> added.newRecord,
      records |-> added.updatedRecords,
      profiles |-> updateProfile(r.snap.profiles, profileData),
      profileData |-> profileData,
      wroteRecords |-> 1, wroteProfiles |-> 1]

\* ------------------------------------------------------- earlier sessions
\* What an earlier session of the same day left in localStorage: nothing, or
\* Ann (a@x) enrolled with ImgA, both extractors loaded.
PriorUser == [name |-> Str("Ann"), email |-> MailA]
PriorOwner == Uuid(0) :> Uuid(-1)

PriorEnrol ==
  LET snap == [records |-> <<>>, profiles |-> <<>>, currentUser |-> PriorUser,
               faceDetectionLoaded |-> TRUE, imageMatchingLoaded |-> TRUE]
      r0 == newRun(0, ImgA, snap, [records |-> AbsentBlob, profiles |-> AbsentBlob])
      r1 == afterFace(afterLoad(r0, <<>>, 0), faceOf(ImgA), <<>>, 0)
  IN storeWrites(afterFeatures(r1, embeddingOf(ImgA), <<>>, 0), 0)

PriorSessions ==
  {[records |-> AbsentBlob, profiles |-> AbsentBlob, owner |-> <<>>],
   [records |-> saveRecords(PriorEnrol.records),
    profiles |-> saveProfiles(PriorEnrol.profiles), owner |-> PriorOwner]}

\* the app mounted: the store hook has loaded what localStorage held
InitApp ==
  /\ \E s \in PriorSessions :
       /\ blobRecords = s.records
       /\ blobProfiles = s.profiles
       /\ owner = s.owner
  /\ records = loadStore(blobRecords, blobProfiles).records
  /\ profiles = loadStore(blobRecords, blobProfiles).profiles
  /\ step = "form"
  /\ isProcessing = FALSE
  /\ currentUser = NoUser
  /\ faceDetectionLoaded = FALSE
  /\ imageMatchingLoaded = FALSE
  /\ runs = [i \in Slots |-> IdleRun]
  /\ started = 0
  /\ today = 0
  /\ last = NoLast

Init ==
  /\ InitApp
  /\ view = NoView
  /\ calls = NoCalls
  /\ probe = NoProbe
  /\ camera = NoCamera
  /\ form = NoForm

\* --------------------------------------------------------------- actions
\* One action per handler: a click, or the resumption of a run after an
\* await, taken up to the run's next await or to its end.

snapshot ==
  [records |-> records, profiles |-> profiles, currentUser |-> currentUser,
   faceDetectionLoaded |-> faceDetectionLoaded,
   imageMatchingLoaded |-> imageMatchingLoaded]

\* the store and its blobs as they are now
storeNow ==
  [records |-> records, profiles |-> profiles,
   blobRecords |-> blobRecords, blobProfiles |-> blobProfiles]

\* the entry of last for a run that ended as r, or for a clear: the run, the
\* store as it was when the run ended, and the day.  Of a run that wrote
\* nothing only its log and the store of its render are kept.
ended(op, r) ==
  [op |-> op,
   run |-> IF op \in {"recorded", "clear"} THEN r
           ELSE [pc |-> r.pc, outcome |-> r.outcome, via |-> r.via, stage |-> r.stage,
                 userId |-> r.userId, entryType |-> r.entryType,
                 askedFace |-> r.askedFace, askedFeatures |-> r.askedFeatures,
                 comparedPixels |-> r.comparedPixels,
                 consultedEmail |-> r.consultedEmail, comparedGate |-> r.comparedGate,
                 similarity |-> r.similarity,
                 wroteRecords |-> r.wroteRecords, wroteProfiles |-> r.wroteProfiles,
                 snap |-> [records |-> r.snap.records, profiles |-> r.snap.profiles],
                 before |-> r.before],
   prev |-> storeNow, day |-> today]

\* the end of a resumption of run i that left it as r1
settle(i, r1) ==
  IF r1.pc = "commit"
  THEN LET w == storeWrites(r1, today)
       IN /\ records' = w.records
          /\ blobRecords' = saveRecords(w.records)
          /\ profiles' = w.profiles
          /\ blobProfiles' = saveProfiles(w.profiles)
          /\ owner' = (w.record.id :> r1.userId) @@ owner
          /\ currentUser' = [name |-> w.profileData.name, email |-> w.profileData.email]
          /\ step' = "complete"
          /\ runs' = [runs EXCEPT ![i] = IdleRun]
          /\ last' = ended("recorded",
                       [r1 EXCEPT !.pc = "Resolved", !.outcome = "recorded",
                                  !.wroteRecords = @ + w.wroteRecords,
                                  !.wroteProfiles = @ + w.wroteProfiles])
          /\ UNCHANGED <<isProcessing, modelVars, started, today>>
  ELSE IF r1.pc = "Rejected"
  THEN /\ step' = "capture"
       /\ isProcessing' = FALSE
       /\ runs' = [runs EXCEPT ![i] = IdleRun]
       /\ last' = ended("mismatch", r1)
       /\ UNCHANGED <<storeVars, currentUser, modelVars, started, today, owner>>
  ELSE /\ runs' = [runs EXCEPT ![i] = r1]
       /\ UNCHANGED <<storeVars, uiVars, modelVars, started, today, owner, last>>

\* AttendanceForm submit -> handleFormSubmit
HandleFormSubmit(formData) ==
  /\ step = "form"
  /\ ~isProcessing
  /\ currentUser' = formData
  /\ step' = "capture"
  /\ UNCHANGED <<storeVars, isProcessing, modelVars, runs, started, today, owner, last>>
  /\ UNCHANGED <<view, calls, probe, camera, form>>

\* CameraCapture Capture -> processAttendance(imageData), its synchronous part:
\* setIsProcessing(true), setStep('processing'), img.src, finally
\* setIsProcessing(false)
ProcessAttendance(i, imageData) ==
  /\ step = "capture"
  /\ ~isProcessing
  /\ started < MaxCaptures
  /\ runs[i].pc = "idle"
  /\ \A j \in Slots : j < i => runs[j].pc # "idle"
  /\ LET inTry == TRUE
         inFinally == FALSE
     IN isProcessing' = inFinally
  /\ step' = "processing"
  /\ started' = started + 1
  /\ runs' = [runs EXCEPT ![i] =
                newRun(started + 1, imageData, snapshot,
                       [records |-> blobRecords, profiles |-> blobProfiles])]
  /\ UNCHANGED <<storeVars, currentUser, modelVars, today, owner, last>>
  /\ UNCHANGED <<view, calls, probe, camera, form>>

\* img.onerror that also saves the records it holds
ImageError_Saves(i) ==
  /\ runs[i].pc = "decoding"
  /\ step' = "capture"
  /\ runs' = [runs EXCEPT ![i] = IdleRun]
  /\ last' = ended("unreadable", [runs[i] EXCEPT !.pc = "Rejected", !.outcome = "unreadable"])
  /\ blobRecords' = saveRecords(records)
  /\ UNCHANGED <<records, profiles, blobProfiles>>
  /\ UNCHANGED <<isProcessing, currentUser, modelVars, started, today, owner>>
  /\ UNCHANGED <<view, calls, probe, camera, form>>

\* img.onerror
ImageError(i) ==
  /\ runs[i].pc = "decoding"
  /\ step' = "capture"
  /\ runs' = [runs EXCEPT ![i] = IdleRun]
  /\ last' = ended("unreadable", [runs[i] EXCEPT !.pc = "Rejected", !.outcome = "unreadable"])
  /\ UNCHANGED <<storeVars, isProcessing, currentUser, modelVars, started, today, owner>>
  /\ UNCHANGED <<view, calls, probe, camera, form>>

\* img.onload, up to the first await
ImageLoaded(i) ==
  /\ runs[i].pc = "decoding"
  /\ settle(i, afterLoad(runs[i], owner, today))
  /\ UNCHANGED <<view, calls, probe, camera, form>>

\* detectFaceFromImage resolves: a descriptor, or null (no face, or an error)
FaceDetected(i, found) ==
  /\ runs[i].pc = "face"
  /\ settle(i, afterFace(runs[i],
                         IF found THEN faceOf(runs[i].imageData) ELSE NULL,
                         owner, today))
  /\ UNCHANGED <<view, calls, probe, camera, form>>

\* extractImageFeatures resolves with the embedding
FeaturesExtracted(i) ==
  /\ runs[i].pc = "features"
  /\ settle(i, afterFeatures(runs[i], embeddingOf(runs[i].imageData), owner, today))
  /\ UNCHANGED <<view, calls, probe, camera, form>>

\* extractImageFeatures rejects (its own image fails to load, or the model
\* throws): nothing in img.onload catches it, the run stops where it is
FeaturesFailed(i) ==
  /\ runs[i].pc = "features"
  /\ runs' = [runs EXCEPT ![i] = IdleRun]
  /\ last' = ended("uncaught", [runs[i] EXCEPT !.pc = "Faulted", !.outcome = "uncaught"])
  /\ UNCHANGED <<storeVars, uiVars, modelVars, started, today, owner>>
  /\ UNCHANGED <<view, calls, probe, camera, form>>

\* the simpleImageCompare calls of the fallback loop have resolved
PixelsCompared(i) ==
  /\ runs[i].pc = "pixel"
  /\ settle(i, afterPixel(runs[i], owner, today))
  /\ UNCHANGED <<view, calls, probe, camera, form>>

\* the simpleImageCompare call of the same-day check has resolved
GateCompared(i) ==
  /\ runs[i].pc = "gate"
  /\ settle(i, afterGate(runs[i]))
  /\ UNCHANGED <<view, calls, probe, camera, form>>

\* Reset (disabled while isProcessing) and Record Another Attendance
ResetFlow ==
  /\ ~isProcessing \/ step = "complete"
  /\ step' = "form"
  /\ currentUser' = NoUser
  /\ isProcessing' = FALSE
  /\ UNCHANGED <<storeVars, modelVars, runs, started, today, owner, last>>
  /\ UNCHANGED <<view, calls, probe, camera, form>>

\* Clear All (shown when there are records, disabled while isProcessing)
\* -> handleClearData -> clearAllData
HandleClearData ==
  /\ Len(records) > 0
  /\ ~isProcessing
  /\ records' = clearAllData(storeNow).records
  /\ profiles' = clearAllData(storeNow).profiles
  /\ blobRecords' = clearAllData(storeNow).blobRecords
  /\ blobProfiles' = clearAllData(storeNow).blobProfiles
  /\ last' = ended("clear", IdleRun)
  /\ UNCHANGED <<uiVars, modelVars, runs, started, today, owner>>
  /\ UNCHANGED <<view, calls, probe, camera, form>>

\* useFaceDetection: the models have loaded (before the first capture, or
\* not in this session)
FaceModelsLoaded ==
  /\ ~faceDetectionLoaded
  /\ started = 0
  /\ faceDetectionLoaded' = TRUE
  /\ UNCHANGED <<storeVars, uiVars, imageMatchingLoaded, runs, started, today, owner, last>>
  /\ UNCHANGED <<view, calls, probe, camera, form>>

\* useImageMatching: the feature extractor has loaded (before the first
\* capture, or not in this session)
ImageModelLoaded ==
  /\ ~imageMatchingLoaded
  /\ started = 0
  /\ imageMatchingLoaded' = TRUE
  /\ UNCHANGED <<storeVars, uiVars, faceDetectionLoaded, runs, started, today, owner, last>>
  /\ UNCHANGED <<view, calls, probe, camera, form>>

\* midnight (between the earlier session and the first capture of this one)
NextDay ==
  /\ today < MaxDay
  /\ started = 0
  /\ today' = today + 1
  /\ UNCHANGED <<storeVars, uiVars, modelVars, runs, started, owner, last>>
  /\ UNCHANGED <<view, calls, probe, camera, form>>

Next ==
  \/ \E f \in FormInputs : HandleFormSubmit(f)
  \/ \E i \in Slots, img \in Captures : ProcessAttendance(i, img)
  \/ \E i \in Slots : ImageError(i)
  \/ \E i \in Slots : ImageLoaded(i)
  \/ \E i \in Slots, found \in BOOLEAN : FaceDetected(i, found)
  \/ \E i \in Slots : FeaturesExtracted(i)
  \/ \E i \in Slots : FeaturesFailed(i)
  \/ \E i \in Slots : PixelsCompared(i)
  \/ \E i \in Slots : GateCompared(i)
  \/ ResetFlow
  \/ HandleClearData
  \/ FaceModelsLoaded
  \/ ImageModelLoaded
  \/ NextDay

Spec == Init /\ [][Next]_vars

\* ------------------------------------------------- the matchers on their own
\* findMatchingFace, findMatchingImage and the pixel fallback called with a
\* probe and a catalog, as the unit tests of the hooks call them.

SeqsUpTo(S, n) == UNION {[1..k -> S] : k \in 0..n}

FaceCatalogs ==
  {[i \in 1..Len(c) |-> [id |-> Uuid(i), descriptor |-> c[i]]] :
     c \in SeqsUpTo(Faces, MaxCatalog)}
ImageCatalogs ==
  {[i \in 1..Len(c) |-> [id |-> Uuid(i), features |-> c[i]]] :
     c \in SeqsUpTo(Embeddings, MaxCatalog)}
PixelCatalogs ==
  {[i \in 1..Len(c) |-> [id |-> Uuid(i), lastImage |-> c[i]]] :
     c \in SeqsUpTo(Images \cup {EMPTY}, MaxCatalog)}

ProbeFace(newDescriptor, existingDescriptors, isLoaded) ==
  /\ probe' = [kind |-> "face", threshold |-> FaceThreshold, ready |-> isLoaded,
               scores |-> [i \in 1..Len(existingDescriptors) |->
                             compareFaces(newDescriptor, existingDescriptors[i].descriptor)],
               ids |-> [i \in 1..Len(existingDescriptors) |-> existingDescriptors[i].id],
               given |-> Truthy(newDescriptor),
               query |-> newDescriptor, catalog |-> existingDescriptors,
               again |-> FALSE,
               earlier |-> findMatchingFace(newDescriptor, existingDescriptors, isLoaded),
               result |-> findMatchingFace(newDescriptor, existingDescriptors, isLoaded)]
  /\ UNCHANGED <<appVars, view, calls, camera, form>>

ProbeImage(newImageFeatures, existingImages, isLoaded) ==
  /\ probe' = [kind |-> "image", threshold |-> ImageThreshold, ready |-> isLoaded,
               scores |-> [i \in 1..Len(existingImages) |->
                             compareImages(newImageFeatures, existingImages[i].features)],
               ids |-> [i \in 1..Len(existingImages) |-> existingImages[i].id],
               given |-> Truthy(newImageFeatures),
               query |-> newImageFeatures, catalog |-> existingImages,
               again |-> FALSE,
               earlier |-> findMatchingImage(newImageFeatures, existingImages, isLoaded),
               result |-> findMatchingImage(newImageFeatures, existingImages, isLoaded)]
  /\ UNCHANGED <<appVars, view, calls, camera, form>>

ProbePixel(imageData, profs) ==
  /\ probe' = [kind |-> "pixel", threshold |-> SimpleThreshold, ready |-> TRUE,
               scores |-> [i \in 1..Len(profs) |->
                             IF Truthy(profs[i].lastImage)
                             THEN simpleImageCompare(imageData, profs[i].lastImage)
                             ELSE 0],
               ids |-> [i \in 1..Len(profs) |-> profs[i].id],
               given |-> TRUE,
               query |-> imageData, catalog |-> profs,
               again |-> FALSE,
               earlier |-> simpleFallback(imageData, profs),
               result |-> simpleFallback(imageData, profs)]
  /\ UNCHANGED <<appVars, view, calls, camera, form>>

\* the matcher of the last probe, as a function of its arguments
matcherOf(kind, query, catalog, ready) ==
  IF kind = "face" THEN findMatchingFace(query, catalog, ready)
  ELSE IF kind = "image" THEN findMatchingImage(query, catalog, ready)
  ELSE simpleFallback(query, catalog)

Reverse(s) == [i \in 1..Len(s) |-> s[Len(s) + 1 - i]]

\* a matcher that sorts the caller's catalog in place: the second call scans
\* it in the order the first call left it
ProbeAgain_SortsInPlace ==
  /\ probe.kind # "none"
  /\ ~probe.again
  /\ probe' = [probe EXCEPT !.again = TRUE, !.earlier = probe.result,
                            !.result = matcherOf(probe.kind, probe.query,
                                                 Reverse(probe.catalog), probe.ready)]
  /\ UNCHANGED <<appVars, view, calls, camera, form>>

\* the same callback called a second time with the same arguments: the
\* matchers keep nothing between calls (bestMatch is a local of the call) and
\* only read the catalog
ProbeAgain ==
  /\ probe.kind # "none"
  /\ ~probe.again
  /\ probe' = [probe EXCEPT !.again = TRUE, !.earlier = probe.result,
                            !.result = matcherOf(probe.kind, probe.query,
                                                 probe.catalog, probe.ready)]
  /\ UNCHANGED <<appVars, view, calls, camera, form>>

NextMatch ==
  \/ ProbeAgain
  \/ \E d \in Faces \cup {NULL}, c \in FaceCatalogs, l \in BOOLEAN : ProbeFace(d, c, l)
  \/ \E f \in Embeddings \cup {NULL}, c \in ImageCatalogs, l \in BOOLEAN : ProbeImage(f, c, l)
  \/ \E img \in Images, c \in PixelCatalogs : ProbePixel(img, c)

\* a session that found localStorage empty
InitEmpty == Init /\ blobRecords = AbsentBlob

SpecMatch == InitEmpty /\ [][NextMatch]_vars

\* ---------------------------------------------------- the store on its own
\* A client of useAttendanceStore (the integration test's renderHook): it
\* holds the callbacks of one render (view) and calls them; React renders
\* again when the batch of calls is over.

StoreRecords ==
  {[name |-> Str("Ann"), email |-> MailA, image |-> ImgA, type |-> t,
    imageFeatures |-> UNDEF, faceDescriptor |-> UNDEF] : t \in {TypeEntry, TypeExit}}

\* a profile with its face descriptor or its embedding, a partial update,
\* and an update that passes properties as undefined
StoreProfiles ==
  {[id |-> Uuid(-1), name |-> Str("Ann"), currentStatus |-> c, faceDescriptor |-> FaceP] :
     c \in {StatusIn, StatusOut}}
    \cup {[id |-> Uuid(-2), name |-> Str("Bob"), currentStatus |-> StatusOut,
           imageFeatures |-> EmbX]}
    \cup {[id |-> Uuid(-1), currentStatus |-> StatusIn, lastEntry |-> Date(0)]}
    \cup {[id |-> Uuid(-1), name |-> UNDEF, faceDescriptor |-> UNDEF]}

\* result.current.addRecord(record)
StoreAddRecord(record) ==
  /\ calls.n < MaxBatch
  /\ LET added == addRecord(view.records, record, Uuid(calls.n + 1), today)
     IN /\ records' = added.updatedRecords
        /\ blobRecords' = saveRecords(added.updatedRecords)
        /\ calls' = [issued |-> Append(calls.issued, added.newRecord.id), n |-> calls.n + 1]
  /\ last' = [op |-> "addRecord"]
  /\ UNCHANGED <<profiles, blobProfiles, uiVars, modelVars, runs, started, today,
                 owner, view, probe, camera, form>>

\* result.current.updateProfile(profileData)
StoreUpdateProfile(profileData) ==
  /\ profiles' = updateProfile(view.profiles, profileData)
  /\ blobProfiles' = saveProfiles(profiles')
  /\ last' = [op |-> "updateProfile", profileData |-> profileData,
               prev |-> [profiles |-> view.profiles]]
  /\ UNCHANGED <<records, blobRecords, uiVars, modelVars, runs, started, today,
                 owner, view, calls, probe, camera, form>>

\* result.current.clearAllData()
StoreClearAllData ==
  /\ records' = clearAllData(storeNow).records
  /\ profiles' = clearAllData(storeNow).profiles
  /\ blobRecords' = clearAllData(storeNow).blobRecords
  /\ blobProfiles' = clearAllData(storeNow).blobProfiles
  /\ calls' = [calls EXCEPT !.issued = <<>>]
  /\ last' = [op |-> "clearAllData", prev |-> storeNow]
  /\ UNCHANGED <<uiVars, modelVars, runs, started, today, owner, view, probe, camera, form>>

\* the batch is over: the hook renders with the state last set
StoreRender ==
  /\ view # [records |-> records, profiles |-> profiles]
  /\ view' = [records |-> records, profiles |-> profiles]
  /\ UNCHANGED <<appVars, calls, probe, camera, form>>

NextStore ==
  \/ \E r \in StoreRecords : StoreAddRecord(r)
  \/ \E p \in StoreProfiles : StoreUpdateProfile(p)
  \/ StoreClearAllData
  \/ StoreRender

SpecStore == InitEmpty /\ [][NextStore]_vars

\* ------------------------------------------ the store on a refusing storage
\* The same client on a localStorage that can refuse an access (the quota
\* is exceeded, or the storage is blocked): the access throws.

\* addRecord, setItem throwing inside the try of saveRecords (lines 46-55)
StoreAddRecordRefused(record) ==
  /\ calls.n < MaxBatch
  /\ LET added == addRecord(view.records, record, Uuid(calls.n + 1), today)
     IN /\ records' = added.updatedRecords
        /\ calls' = [issued |-> Append(calls.issued, added.newRecord.id), n |-> calls.n + 1]
        /\ last' = [op |-> "refused", call |-> "addRecord", threw |-> FALSE,
                     id |-> added.newRecord.id, prev |-> storeNow]
  /\ UNCHANGED <<profiles, blobRecords, blobProfiles, uiVars, modelVars, runs, started,
                 today, owner, view, probe, camera, form>>

\* updateProfile, setItem throwing inside the try of saveProfiles (lines 60-69)
StoreUpdateProfileRefused(profileData) ==
  /\ profiles' = updateProfile(view.profiles, profileData)
  /\ last' = [op |-> "refused", call |-> "updateProfile", threw |-> FALSE,
               id |-> profileData.id, prev |-> storeNow]
  /\ UNCHANGED <<records, blobRecords, blobProfiles, uiVars, modelVars, runs, started,
                 today, owner, view, calls, probe, camera, form>>

\* clearAllData, the first removeItem throwing (lines 134-137): both setters
\* have been called, nothing catches the error
StoreClearAllDataRefused ==
  /\ records' = <<>>
  /\ profiles' = <<>>
  /\ calls' = [calls EXCEPT !.issued = <<>>]
  /\ last' = [op |-> "refused", call |-> "clearAllData", threw |-> TRUE,
               id |-> UNDEF, prev |-> storeNow]
  /\ UNCHANGED <<blobRecords, blobProfiles, uiVars, modelVars, runs, started,
                 today, owner, view, probe, camera, form>>

\* the profile the client writes while the storage refuses
QuotaProfiles == {p \in StoreProfiles : p.id = Uuid(-2)}

NextQuota ==
  \/ \E r \in StoreRecords : StoreAddRecord(r)
  \/ \E r \in StoreRecords : StoreAddRecordRefused(r)
  \/ \E p \in QuotaProfiles : StoreUpdateProfile(p)
  \/ \E p \in QuotaProfiles : StoreUpdateProfileRefused(p)
  \/ StoreClearAllData
  \/ StoreClearAllDataRefused
  \/ StoreRender

SpecQuota == InitEmpty /\ [][NextQuota]_vars

\* ------------------------------------------------------ the camera on its own
\* useCamera: cameraState as React holds it (state), as the render that made
\* the callbacks saw it (seen), the video element, the startCamera calls in
\* flight and the streams whose tracks run.  The stream of the i-th
\* startCamera call is stream i.

MaxStarts == 2   \* startCamera calls in one behaviour

Starts == 1..MaxStarts

Stream(i) == <<"stream", i>>

Inactive == [isActive |-> FALSE, isLoading |-> FALSE, error |-> NULL, stream |-> NULL]

\* what getUserMedia or play() rejects with: an Error, or anything else
Rejections == {[isError |-> TRUE, message |-> Str("Permission denied")],
               [isError |-> FALSE, message |-> UNDEF]}

errorOf(error) == IF error.isError THEN error.message ELSE Str("Camera access denied")

\* the hook mounts, with a video element attached to videoRef or (renderHook)
\* without one
CameraMount(video) ==
  /\ camera = NoCamera
  /\ camera' = [op |-> "mounted", state |-> Inactive, seen |-> Inactive,
                video |-> video, srcObject |-> NULL,
                pc |-> [i \in Starts |-> "idle"], live |-> {},
                shot |-> [taken |-> FALSE], event |-> [op |-> "mount"],
                cancelled |-> {}]
  /\ UNCHANGED <<appVars, view, calls, probe, form>>

\* startCamera up to its first await
StartCamera(i) ==
  /\ camera.op = "mounted"
  /\ camera.pc[i] = "idle"
  /\ \A j \in Starts : j < i => camera.pc[j] # "idle"
  /\ camera' = [camera EXCEPT !.state = [@ EXCEPT !.isLoading = TRUE, !.error = NULL],
                              !.pc[i] = "device",
                              !.event = [op |-> "start"],
                              !.cancelled = {}]
  /\ UNCHANGED <<appVars, view, calls, probe, form>>

\* getUserMedia resolves: the stream runs; with a video element the call
\* waits for play(), without one it sets the state at once
DeviceGranted(i) ==
  /\ camera.op = "mounted"
  /\ camera.pc[i] = "device"
  /\ camera' = IF camera.video
               THEN [camera EXCEPT !.live = @ \cup {Stream(i)}, !.srcObject = Stream(i),
                                   !.pc[i] = "play", !.event = [op |-> "granted"]]
               ELSE [camera EXCEPT !.live = @ \cup {Stream(i)}, !.pc[i] = "done",
                                   !.event = [op |-> "started", by |-> i],
                                   !.state = [isActive |-> TRUE, isLoading |-> FALSE,
                                              error |-> NULL, stream |-> Stream(i)]]
  /\ UNCHANGED <<appVars, view, calls, probe, form>>

\* getUserMedia rejects
DeviceDenied(i, error) ==
  /\ camera.op = "mounted"
  /\ camera.pc[i] = "device"
  /\ camera' = [camera EXCEPT !.pc[i] = "done",
                              !.event = [op |-> "failed", error |-> error],
                              !.state = [isActive |-> FALSE, isLoading |-> FALSE,
                                         error |-> errorOf(error), stream |-> NULL]]
  /\ UNCHANGED <<appVars, view, calls, probe, form>>

\* play() resolves
PlayResolved(i) ==
  /\ camera.op = "mounted"
  /\ camera.pc[i] = "play"
  /\ camera' = [camera EXCEPT !.pc[i] = "done",
                              !.event = [op |-> "started", by |-> i],
                              !.state = [isActive |-> TRUE, isLoading |-> FALSE,
                                         error |-> NULL, stream |-> Stream(i)]]
  /\ UNCHANGED <<appVars, view, calls, probe, form>>

\* play() rejects: the catch sets the state, the stream obtained is let go
PlayRejected(i, error) ==
  /\ camera.op = "mounted"
  /\ camera.pc[i] = "play"
  /\ camera' = [camera EXCEPT !.pc[i] = "done",
                              !.event = [op |-> "failed", error |-> error],
                              !.state = [isActive |-> FALSE, isLoading |-> FALSE,
                                         error |-> errorOf(error), stream |-> NULL]]
  /\ UNCHANGED <<appVars, view, calls, probe, form>>

\* stopCamera of the render: it stops the tracks of the stream that render
\* saw.  cancelled: the startCamera calls that were waiting when it was
\* called, until startCamera is called again.
StopCamera ==
  /\ camera.op = "mounted"
  /\ camera' = [camera EXCEPT !.live = IF camera.seen.stream # NULL
                                       THEN @ \ {camera.seen.stream} ELSE @,
                              !.event = [op |-> "stopped",
                                         current |-> camera.seen = camera.state,
                                         was |-> camera.state.stream],
                              !.cancelled = @ \cup {i \in Starts :
                                                      camera.pc[i] = "device"},
                              !.srcObject = IF camera.video THEN NULL ELSE @,
                              !.state = Inactive]
  /\ UNCHANGED <<appVars, view, calls, probe, form>>

\* React renders: the callbacks are made again from the state, and the
\* cleanup of the effect on cameraState.stream stops the stream of the render
\* before when the stream changed
CameraRender ==
  /\ camera.op = "mounted"
  /\ camera.seen # camera.state
  /\ camera' = [camera EXCEPT !.seen = camera.state,
                              !.live = IF /\ camera.seen.stream # camera.state.stream
                                          /\ camera.seen.stream # NULL
                                       THEN @ \ {camera.seen.stream} ELSE @]
  /\ UNCHANGED <<appVars, view, calls, probe, form>>

\* captureImage without the test of cameraState.isActive
captureImage_AnyState(video, cameraState, srcObject, ctx) ==
  IF ~video THEN NULL
  ELSE IF ~ctx THEN NULL
  ELSE <<"data", srcObject>>

\* captureImage of a render that saw cameraState; ctx: the canvas gave a 2d
\* context.  The data URL is the picture of what the video shows.
captureImage(video, cameraState, srcObject, ctx) ==
  IF ~video \/ ~cameraState.isActive THEN NULL
  ELSE IF ~ctx THEN NULL
  ELSE <<"data", srcObject>>

CaptureImage(ctx) ==
  /\ camera.op = "mounted"
  /\ camera' = [camera EXCEPT !.shot =
                   [taken |-> TRUE,
                    result |-> captureImage(camera.video, camera.seen,
                                            camera.srcObject, ctx),
                    ctx |-> ctx,
                    seen |-> camera.seen, state |-> camera.state,
                    live |-> camera.live]]
  /\ UNCHANGED <<appVars, view, calls, probe, form>>

NextCamera ==
  \/ \E video \in BOOLEAN : CameraMount(video)
  \/ \E i \in Starts : StartCamera(i)
  \/ \E i \in Starts : DeviceGranted(i)
  \/ \E i \in Starts, error \in Rejections : DeviceDenied(i, error)
  \/ \E i \in Starts : PlayResolved(i)
  \/ \E i \in Starts, error \in Rejections : PlayRejected(i, error)
  \/ StopCamera
  \/ CameraRender
  \/ \E ctx \in BOOLEAN : CaptureImage(ctx)

SpecCamera == InitEmpty /\ [][NextCamera]_vars

\* -------------------------------------------------------- the form on its own
\* AttendanceForm with the onSubmit it is given: what is typed in the two
\* fields (text as a tuple of characters) and what the last submit did.

\* String.prototype.trim
RECURSIVE trimStart(_)
trimStart(s) == IF s # <<>> /\ Head(s) = " " THEN trimStart(Tail(s)) ELSE s
RECURSIVE trimEnd(_)
trimEnd(s) == IF s # <<>> /\ s[Len(s)] = " " THEN trimEnd(SubSeq(s, 1, Len(s) - 1)) ELSE s
trim(s) == trimEnd(trimStart(s))

\* String.prototype.includes of one character
includes(s, c) == \E i \in 1..Len(s) : s[i] = c

\* what is typed into the name field and into the e-mail field
TypedNames == {<<>>, <<" ">>, <<"J">>, <<" ", "J">>}
TypedEmails == {<<>>, <<" ">>, <<"j">>, <<"@">>, <<"j", "@", "x">>}

\* the disabled attribute of the button is !isValid
isValid(formData) ==
  /\ trim(formData.name) # <<>>
  /\ trim(formData.email) # <<>>
  /\ includes(formData.email, "@")

\* handleSubmit: whether onSubmit(formData) is called
handleSubmit(formData) == trim(formData.name) # <<>> /\ trim(formData.email) # <<>>

FormMount ==
  /\ form = NoForm
  /\ form' = [op |-> "mounted", formData |-> [name |-> <<>>, email |-> <<>>],
              event |-> [by |-> "none"]]
  /\ UNCHANGED <<appVars, view, calls, probe, camera>>

\* onChange of the name field
TypeName(value) ==
  /\ form.op = "mounted"
  /\ form' = [form EXCEPT !.formData.name = value]
  /\ UNCHANGED <<appVars, view, calls, probe, camera>>

\* onChange of the e-mail field
TypeEmail(value) ==
  /\ form.op = "mounted"
  /\ form' = [form EXCEPT !.formData.email = value]
  /\ UNCHANGED <<appVars, view, calls, probe, camera>>

\* a click on the button, which is enabled when isValid
ClickSubmit ==
  /\ form.op = "mounted"
  /\ isValid(form.formData)
  /\ form' = [form EXCEPT !.event = [by |-> "click", formData |-> form.formData,
                                     onSubmit |-> handleSubmit(form.formData)]]
  /\ UNCHANGED <<appVars, view, calls, probe, camera>>

\* a submit event dispatched on the form (fireEvent.submit), whatever the
\* button shows
SubmitEvent ==
  /\ form.op = "mounted"
  /\ form' = [form EXCEPT !.event = [by |-> "event", formData |-> form.formData,
                                     onSubmit |-> handleSubmit(form.formData)]]
  /\ UNCHANGED <<appVars, view, calls, probe, camera>>

NextForm ==
  \/ FormMount
  \/ \E value \in TypedNames : TypeName(value)
  \/ \E value \in TypedEmails : TypeEmail(value)
  \/ ClickSubmit
  \/ SubmitEvent

SpecForm == InitEmpty /\ [][NextForm]_vars

\* ------------------------------------------- the store mounted on a storage
\* A hook mounts on what localStorage holds: blobs written by an earlier
\* hook, or anything else found under the two keys.

\* collections as the application and the integration test hand them over
SavedRecordSamples ==
  {PriorEnrol.records[1],
   [id |-> Uuid(2), name |-> Str("Bob"), email |-> MailB, image |-> ImgD,
    type |-> TypeExit, timestamp |-> Date(1),
    imageFeatures |-> NULL, faceDescriptor |-> UNDEF],
   [id |-> Uuid(4), name |-> Str("Ann"), email |-> MailA, image |-> ImgC,
    type |-> TypeEntry, timestamp |-> Date(0)]}

SavedProfileSamples ==
  {PriorEnrol.profiles[1],
   [id |-> Uuid(1), name |-> Str("Bob"), email |-> MailB, lastImage |-> ImgD,
    currentStatus |-> StatusOut, lastEntry |-> Date(0), lastExit |-> Date(1),
    imageFeatures |-> NULL, faceDescriptor |-> UNDEF],
   [id |-> Uuid(3), name |-> EMPTY, email |-> MailA2, lastImage |-> ImgC,
    currentStatus |-> StatusIn]}

SavedRecords == SeqsUpTo(SavedRecordSamples, MaxCatalog)
SavedProfiles == SeqsUpTo(SavedProfileSamples, MaxCatalog)

\* a parsed element that is no object ({...1} has no properties)
NoProperties == <<>>

\* what can be found under a key: nothing, text that is no JSON, JSON that
\* is no array, an array holding null, an array of numbers, a saved blob
OtherBlobs ==
  {AbsentBlob, [kind |-> "text", items |-> <<>>], [kind |-> "value", items |-> <<>>],
   [kind |-> "nulls", items |-> <<>>], [kind |-> "array", items |-> <<NoProperties>>]}
RecordBlobs == OtherBlobs \cup {saveRecords(c) : c \in SavedRecords}
ProfileBlobs == OtherBlobs \cup {saveProfiles(c) : c \in SavedProfiles}

\* renderHook(() => useAttendanceStore()) on a storage holding the two blobs
StoreMount(savedRecords, savedProfiles) ==
  /\ last = NoLast     \* the effect runs once, on mount
  /\ blobRecords' = savedRecords
  /\ blobProfiles' = savedProfiles
  /\ records' = loadStore(savedRecords, savedProfiles).records
  /\ profiles' = loadStore(savedRecords, savedProfiles).profiles
  /\ view' = NoView
  /\ last' = [op |-> "mount"]
  /\ UNCHANGED <<uiVars, modelVars, runs, started, today, owner, calls, probe, camera, form>>

\* a hook has saved the two collections, and a new hook mounts on the storage
StoreReload(newRecords, newProfiles) ==
  /\ last = NoLast     \* the effect runs once, on mount
  /\ blobRecords' = saveRecords(newRecords)
  /\ blobProfiles' = saveProfiles(newProfiles)
  /\ records' = loadStore(blobRecords', blobProfiles').records
  /\ profiles' = loadStore(blobRecords', blobProfiles').profiles
  /\ view' = [records |-> newRecords, profiles |-> newProfiles]
  /\ last' = [op |-> "reload"]
  /\ UNCHANGED <<uiVars, modelVars, runs, started, today, owner, calls, probe, camera, form>>

NextLoad ==
  \/ \E br \in RecordBlobs, bp \in ProfileBlobs : StoreMount(br, bp)
  \/ \E c \in SavedRecords, d \in SavedProfiles : StoreReload(c, d)

SpecLoad == InitEmpty /\ [][NextLoad]_vars

\* ------------------------------------------------------------- properties
\* the records of the store written for attendee id, newest first
recordsOf(recs, id) ==
  SelectSeq(recs, LAMBDA r : r.id \in DOMAIN owner /\ owner[r.id] = id)

\* old is what is left of new when the newest records are taken off
IsSuffix(old, new) ==
  /\ Len(old) <= Len(new)
  /\ SubSeq(new, Len(new) - Len(old) + 1, Len(new)) = old

RunEnded == last.op \in {"recorded", "mismatch", "unreadable", "uncaught"}
WroteNothing == {"mismatch", "unreadable", "uncaught"}

\* C1: when the same-day gate rejects a check-out, the records, the profiles
\* and both persisted blobs are what they were before the run.
C1_GateRejectLeavesStore ==
  last.op = "mismatch" =>
    /\ records = last.run.snap.records
    /\ profiles = last.run.snap.profiles
    /\ blobRecords = last.run.before.records
    /\ blobProfiles = last.run.before.profiles

\* C2: a run writes its record and its profile update together, after the
\* whole decision (the gate included), or writes neither.
C2_BothWritesOrNeither ==
  /\ \A i \in Slots : runs[i].pc # "idle" =>
       runs[i].wroteRecords = 0 /\ runs[i].wroteProfiles = 0
  /\ last.op \in WroteNothing =>
       /\ last.run.wroteRecords = 0 /\ last.run.wroteProfiles = 0
       /\ storeNow = last.prev
  /\ last.op = "recorded" =>
       /\ last.run.wroteRecords = 1 /\ last.run.wroteProfiles = 1
       /\ last.run.todayEntry # NoRecord => last.run.comparedGate
       /\ records # <<>> /\ Head(records).id = Uuid(2 * last.run.n)
       /\ getProfile(profiles, last.run.userId) # UNDEF
       /\ getProfile(profiles, last.run.userId).lastImage = Head(records).image
       /\ getProfile(profiles, last.run.userId).currentStatus
            = (IF Head(records).type = TypeEntry THEN StatusIn ELSE StatusOut)
       /\ blobRecords = saveRecords(records)
       /\ blobProfiles = saveProfiles(profiles)

\* a run passed the gate and wrote
C2_Witness ==
  /\ last.op = "recorded"
  /\ last.run.comparedGate
  /\ last.run.entryType = TypeExit

\* C3: a profile's status is IN exactly when the most recent record written
\* for it is an ENTRY.
C3_StatusFollowsLastRecord ==
  \A k \in 1..Len(profiles) :
    LET mine == recordsOf(records, profiles[k].id)
    IN profiles[k].currentStatus = StatusIn
         <=> (mine # <<>> /\ Head(mine).type = TypeEntry)

\* a profile is OUT after a check-out written in this session
C3_Witness ==
  \E k \in 1..Len(profiles) :
    /\ profiles[k].currentStatus = StatusOut
    /\ Len(recordsOf(records, profiles[k].id)) = 2
    /\ last.op = "recorded"

\* C4: at most one run is between its capture and its outcome.
C4_AtMostOneResolving ==
  Cardinality({i \in Slots : runs[i].pc \in Resolving}) <= 1

\* C5: an accepted run on an existing profile toggles the profile's status:
\* from IN an EXIT record, status OUT, lastExit set, lastEntry kept; from OUT
\* an ENTRY record, status IN, lastEntry set, lastExit kept.
C5_Toggle ==
  (last.op = "recorded" /\ last.run.via \in {"match", "email"}
     /\ getProfile(last.prev.profiles, last.run.userId) # UNDEF) =>
    LET was == getProfile(last.prev.profiles, last.run.userId)
        now == getProfile(profiles, last.run.userId)
    IN /\ was.currentStatus = StatusIn =>
            /\ Head(records).type = TypeExit
            /\ now.currentStatus = StatusOut
            /\ Get(now, "lastExit") = Date(last.day)
            /\ Get(now, "lastEntry") = Get(was, "lastEntry")
       /\ was.currentStatus = StatusOut =>
            /\ Head(records).type = TypeEntry
            /\ now.currentStatus = StatusIn
            /\ Get(now, "lastEntry") = Date(last.day)
            /\ Get(now, "lastExit") = Get(was, "lastExit")

\* C6: a run that no stage matched creates one profile with a fresh id,
\* status IN and lastEntry set, and writes one ENTRY record for it; a capture
\* made on an empty store leaves one profile and one record.
C6_NewEnrollment ==
  (last.op = "recorded" /\ last.run.via = "new") =>
    LET id == last.run.userId
        made == SelectSeq(profiles, LAMBDA p : p.id = id)
        mine == recordsOf(records, id)
    IN /\ getProfile(last.prev.profiles, id) = UNDEF
       /\ getProfile(last.run.snap.profiles, id) = UNDEF
       /\ recordsOf(last.prev.records, id) = <<>>
       /\ Len(made) = 1
       /\ made[1].currentStatus = StatusIn
       /\ Get(made[1], "lastEntry") = Date(last.day)
       /\ Len(mine) = 1
       /\ mine[1].type = TypeEntry
       /\ mine[1] = Head(records)
       /\ (last.run.snap.records = <<>> /\ last.run.snap.profiles = <<>>) =>
            (Len(records) = 1 /\ Len(profiles) = 1)

\* an enrolment on an empty store
C6_Witness ==
  /\ last.op = "recorded"
  /\ last.run.via = "new"
  /\ last.run.snap.profiles = <<>>
  /\ Len(profiles) = 1
  /\ Len(records) = 1

\* what each stage finds for run r in the catalog of its render
faceKnown(r) ==
  /\ Truthy(r.faceDescriptor)
  /\ existingDescriptorsOf(r.snap.profiles) # <<>>
  /\ findMatchingFace(r.faceDescriptor, existingDescriptorsOf(r.snap.profiles),
                      r.snap.faceDetectionLoaded).isMatch
featuresKnown(r) ==
  /\ Truthy(r.imageFeatures)
  /\ findMatchingImage(r.imageFeatures, getImageFeatures(r.snap.profiles),
                       r.snap.imageMatchingLoaded).isMatch
pixelKnown(r) == simpleFallback(r.imageData, r.snap.profiles).isMatch
emailKnown(r) ==
  \E k \in 1..Len(r.snap.profiles) :
    toLowerCase(r.snap.profiles[k].email) = toLowerCase(r.snap.currentUser.email)

\* the runs whose identity is resolved and whose locals are still held
Decided ==
  {runs[i] : i \in {j \in Slots : runs[j].pc = "gate"}}
    \cup (IF last.op = "recorded" THEN {last.run} ELSE {})

\* the logs of all the runs held
Logs ==
  {runs[i] : i \in {j \in Slots : runs[j].pc # "idle"}}
    \cup (IF RunEnded THEN {last.run} ELSE {})

\* C7: the identity is the one of the earliest stage that matches, in the
\* order face, embedding, pixel, e-mail, new; once a stage has matched no
\* later stage is invoked.
C7_StagePrecedence ==
  /\ \A r \in Logs :
       /\ r.stage = "face" => ~r.askedFeatures /\ ~r.comparedPixels /\ ~r.consultedEmail
       /\ r.stage = "features" => ~r.comparedPixels /\ ~r.consultedEmail
       /\ r.stage = "pixel" => ~r.consultedEmail
       /\ r.via = "match" <=> r.stage # "none"
       /\ r.via \in {"email", "new"} => r.consultedEmail
  /\ \A i \in Slots :
       /\ runs[i].pc = "features" => ~faceKnown(runs[i])
       /\ runs[i].pc = "pixel" => ~faceKnown(runs[i]) /\ ~featuresKnown(runs[i])
  /\ \A r \in Decided :
       /\ r.stage = (IF faceKnown(r) THEN "face"
                     ELSE IF featuresKnown(r) THEN "features"
                     ELSE IF pixelKnown(r) THEN "pixel" ELSE "none")
       /\ r.stage = "none" => (r.via = "email" <=> emailKnown(r))
       /\ r.stage # "none" => r.userId = r.matchResult.attendeeId
       /\ r.via = "email" =>
            toLowerCase(r.existing.email) = toLowerCase(r.snap.currentUser.email)
       /\ r.via = "new" => getProfile(r.snap.profiles, r.userId) = UNDEF

\* a face match ended a run whose render had the embedding extractor loaded
\* and a profile with the submitted e-mail
C7_Witness ==
  /\ last.op = "recorded"
  /\ last.run.stage = "face"
  /\ last.run.snap.imageMatchingLoaded
  /\ emailKnown(last.run)
  /\ pixelKnown(last.run)

\* the largest of the scores of a probe, 0 for an empty catalog
BestScore ==
  IF probe.scores = <<>> THEN 0
  ELSE CHOOSE x \in {probe.scores[i] : i \in 1..Len(probe.scores)} :
         \A i \in 1..Len(probe.scores) : probe.scores[i] <= x

\* C8: a matcher reports a match exactly when its best score is strictly
\* above its threshold (0.6 face, 0.75 embedding, 0.8 pixel); the match is a
\* catalog entry with that score.
C8_StrictThresholds ==
  probe.kind # "none" =>
    /\ probe.result.isMatch <=> (probe.given /\ probe.ready
                                   /\ BestScore > probe.threshold)
    /\ probe.result.isMatch =>
         /\ probe.result.confidence = BestScore
         /\ \E i \in 1..Len(probe.ids) :
              probe.ids[i] = probe.result.attendeeId /\ probe.scores[i] = BestScore
    /\ probe.threshold = (IF probe.kind = "face" THEN 60
                          ELSE IF probe.kind = "image" THEN 75 ELSE 80)

\* a face probe whose best score is the threshold itself
C8_Witness ==
  /\ probe.kind = "face"
  /\ probe.given /\ probe.ready
  /\ BestScore = probe.threshold
  /\ ~probe.result.isMatch

\* C9: after N addRecord calls on a cleared store the store holds N records
\* and getRecentRecords(k) is the last min(k, N) inserted, newest first,
\* however the calls are issued.
C9_EveryCallAddsARecord ==
  /\ Len(records) = Len(calls.issued)
  /\ \A k \in 0..MaxBatch :
       LET recent == getRecentRecords(records, k)
           N == Len(calls.issued)
           m == IF k < N THEN k ELSE N
       IN /\ Len(recent) = m
          /\ \A i \in 1..m : recent[i].id = calls.issued[N + 1 - i]

\* C10: without a clear, the records held before a write are all held after
\* it, unchanged and in the same order.
C10_AppendOnly ==
  RunEnded => IsSuffix(last.prev.records, records)

\* C11: an extractor that is not ready, finds nothing or fails never ends
\* the run: no run is cut short by a failure of an extractor, and a run
\* resumed with an absent face descriptor goes on exactly as a run whose
\* detector was not ready.
C11_ExtractorFailureSkipsStage ==
  /\ last.op # "uncaught"
  /\ \A i \in Slots :
       runs[i].pc = "face" =>
         afterFace(runs[i], NULL, owner, today) = toFeatures(runs[i], owner, today)

\* C12: a run that has left Resolving has ended Resolved or Rejected, and
\* the step is 'processing' only while some run is still Resolving: no run
\* stops without an outcome shown.
C12_EveryRunReportsAnOutcome ==
  /\ RunEnded => last.run.pc \in {"Resolved", "Rejected"}
  /\ step = "processing" => \E i \in Slots : runs[i].pc \in Resolving

\* a blob that does not hold a sequence of records (or profiles): text that
\* is no JSON, JSON that is no array, or an array with an element that is
\* no record
Corrupt(blob) ==
  \/ blob.kind \in {"text", "value", "nulls"}
  \/ /\ blob.kind = "array"
     /\ \E i \in 1..Len(blob.items) : "id" \notin DOMAIN blob.items[i]

\* C13: a store mounted on two blobs that are no JSON, or JSON that is no
\* sequence of records and of profiles, holds no record and no profile.
C13_CorruptBlobsLoadEmpty ==
  (last.op = "mount" /\ Corrupt(blobRecords) /\ Corrupt(blobProfiles)) =>
    (records = <<>> /\ profiles = <<>>)

\* a vector or a date that is there
Present(v) == v \notin {NULL, UNDEF}

\* the same properties with the same values, an absent one being absent in
\* both
SameObject(a, b) ==
  \A k \in DOMAIN a \cup DOMAIN b :
    (Present(Get(a, k)) \/ Present(Get(b, k))) => Get(a, k) = Get(b, k)
SameCollection(c, d) ==
  /\ Len(c) = Len(d)
  /\ \A i \in 1..Len(c) : SameObject(c[i], d[i])

\* C14: the collections loaded from the blobs a hook has saved are the
\* collections it saved: the same elements in the same order, every vector
\* that was there equal element for element, every absent one still absent,
\* every date the same date.
C14_SaveThenLoad ==
  last.op = "reload" =>
    /\ SameCollection(records, view.records)
    /\ SameCollection(profiles, view.profiles)
C14_Witness ==
  /\ last.op = "reload"
  /\ \E i \in 1..Len(records) : Present(Get(records[i], "imageFeatures"))
  /\ \E i \in 1..Len(records) : ~Present(Get(view.records[i], "faceDescriptor"))
  /\ \E i \in 1..Len(profiles) : Present(Get(profiles[i], "lastExit"))
  /\ \E i \in 1..Len(profiles) : Get(view.profiles[i], "imageFeatures") = NULL

StoreCalls == {"addRecord", "updateProfile", "clearAllData"}

\* C15: once addRecord, updateProfile or clearAllData has returned, what
\* localStorage holds decodes to the collections the call has set: nothing
\* is left to be written later.
C15_BlobFollowsEveryCall ==
  last.op \in StoreCalls =>
    /\ SameCollection(loadStore(blobRecords, blobProfiles).records, records)
    /\ SameCollection(loadStore(blobRecords, blobProfiles).profiles, profiles)
C15_Witness ==
  /\ last.op = "addRecord"
  /\ Len(records) = 2
  /\ Len(profiles) = 2
  /\ blobRecords.kind = "array"
  /\ blobProfiles.kind = "array"

\* C16: after clearAllData both collections are empty and both blobs are
\* gone, whatever the store held.
C16_ClearLeavesNothing ==
  last.op = "clearAllData" =>
    /\ records = <<>>
    /\ profiles = <<>>
    /\ blobRecords = AbsentBlob
    /\ blobProfiles = AbsentBlob
C16_Witness ==
  /\ last.op = "clearAllData"
  /\ last.prev.records # <<>>
  /\ last.prev.profiles # <<>>
  /\ last.prev.blobRecords # AbsentBlob
  /\ last.prev.blobProfiles # AbsentBlob
  /\ records = <<>>

\* C17: updateProfile with the id of a profile of the render changes that
\* profile only, and of it only the properties passed with a defined value:
\* a property passed as undefined, or not passed, keeps its value, the other
\* profiles and their number are as they were.
C17_UpdateMergesDefinedFields ==
  (/\ last.op = "updateProfile"
   /\ \E i \in 1..Len(last.prev.profiles) :
        last.prev.profiles[i].id = last.profileData.id) =>
    LET old == last.prev.profiles
        data == last.profileData
        at == CHOOSE i \in 1..Len(old) :
                /\ old[i].id = data.id
                /\ \A j \in 1..Len(old) : old[j].id = data.id => i <= j
    IN /\ Len(profiles) = Len(old)
       /\ \A i \in 1..Len(old) : i # at => profiles[i] = old[i]
       /\ \A k \in DOMAIN old[at] \cup DOMAIN data :
            Get(profiles[at], k) =
              IF k \in DOMAIN data /\ data[k] # UNDEF THEN data[k] ELSE Get(old[at], k)

\* C18: each catalog of the store lists, in the order of the profiles,
\* exactly the profiles that hold a vector of its kind, each with its id and
\* that vector: the embeddings for getImageFeatures, the face descriptors
\* for getFaceDescriptors.
C18_CatalogsHoldTheirKind ==
  LET f == SelectSeq(profiles, LAMBDA p : Present(Get(p, "imageFeatures")))
      d == SelectSeq(profiles, LAMBDA p : Present(Get(p, "faceDescriptor")))
  IN /\ getImageFeatures(profiles)
          = [i \in 1..Len(f) |-> [id |-> f[i].id, features |-> f[i].imageFeatures]]
     /\ getFaceDescriptors(profiles)
          = [i \in 1..Len(d) |-> [id |-> d[i].id, descriptor |-> d[i].faceDescriptor]]

\* two addresses that differ at most in the case of their letters
SameLetter(c, d) ==
  c = d \/ <<c, d>> \in {<<"a", "A">>, <<"A", "a">>, <<"b", "B">>, <<"B", "b">>}
EqualIgnoringCase(a, b) ==
  /\ Len(a) = Len(b)
  /\ \A i \in 1..Len(a) : SameLetter(a[i], b[i])

\* the profiles of the render of run r that carry the address of the form
sameEmail(r) ==
  {k \in 1..Len(r.snap.profiles) :
     EqualIgnoringCase(r.snap.profiles[k].email, r.snap.currentUser.email)}

\* C19: a run in which no vector and no pixel stage has matched resolves
\* to a profile whose e-mail is the form's, case ignored, when there is one,
\* and enrols a new identity only when there is none; recorded, it gives
\* that profile the other status and adds no profile.
C19_EmailFallback ==
  /\ \A r \in Decided :
       r.stage = "none" =>
         IF sameEmail(r) # {}
         THEN /\ r.via = "email"
              /\ r.userId \in {r.snap.profiles[k].id : k \in sameEmail(r)}
              /\ r.existing.id = r.userId
              /\ r.entryType = IF r.existing.currentStatus = StatusOut
                               THEN TypeEntry ELSE TypeExit
         ELSE r.via = "new"
  /\ (last.op = "recorded" /\ last.run.stage = "none" /\ sameEmail(last.run) # {}) =>
       /\ Len(profiles) = Len(last.run.snap.profiles)
       /\ \A k \in 1..Len(profiles) :
            profiles[k].id = last.run.userId =>
              /\ profiles[k].currentStatus # last.run.existing.currentStatus
              /\ profiles[k].currentStatus
                   = IF Head(records).type = TypeEntry THEN StatusIn ELSE StatusOut
C19_Witness ==
  /\ last.op = "recorded"
  /\ last.run.stage = "none"
  /\ last.run.via = "email"
  /\ last.run.existing.email # last.run.snap.currentUser.email
  /\ \E k \in 1..Len(profiles) : profiles[k].id = last.run.userId

\* C20: a check-out that has found today's check-in is accepted when the
\* pixel confidence is 0.7 or more, 0.7 itself included: only a confidence
\* under 0.7 is turned down, and the accepted run puts one record, an EXIT,
\* in front of the records of its render and leaves the profile OUT.
C20_GateAcceptsFromThreshold ==
  /\ last.op = "mismatch" => last.run.similarity < 70
  /\ (last.op = "recorded" /\ last.run.comparedGate) =>
       /\ last.run.similarity >= 70
       /\ last.run.entryType = TypeExit
       /\ Len(records) = Len(last.run.snap.records) + 1
       /\ Tail(records) = last.run.snap.records
       /\ Head(records).type = TypeExit
       /\ Head(records).id \notin {last.run.snap.records[k].id :
                                     k \in 1..Len(last.run.snap.records)}
       /\ \A k \in 1..Len(profiles) :
            profiles[k].id = last.run.userId => profiles[k].currentStatus = StatusOut
       /\ \E k \in 1..Len(profiles) : profiles[k].id = last.run.userId
C20_Witness ==
  /\ last.op = "recorded"
  /\ last.run.comparedGate
  /\ last.run.todayEntry # NoRecord
  /\ last.run.similarity = 70
  /\ Head(records).type = TypeExit

C22_RefusedWriteLeavesAGap ==
  last.op = "refused" =>
    /\ ~last.threw
    /\ blobRecords = last.prev.blobRecords
    /\ blobProfiles = last.prev.blobProfiles
    /\ last.call = "addRecord" =>
         /\ records # <<>> /\ Head(records).id = last.id
         /\ \A k \in 1..Len(loadStore(blobRecords, blobProfiles).records) :
              loadStore(blobRecords, blobProfiles).records[k].id # last.id
    /\ last.call = "updateProfile" =>
         \E k \in 1..Len(profiles) : profiles[k].id = last.id
    /\ last.call = "clearAllData" => (records = <<>> /\ profiles = <<>>)

\* C23: the profile created by a new-enrolment run has the id of the record
\* that run wrote, so that the records of an identity are found from the
\* profile's id.
C23_ProfileSharesRecordId ==
  (last.op = "recorded" /\ last.run.via = "new" /\ last.run.wroteRecords = 1) =>
    \E k \in 1..Len(records) :
      /\ records[k].id = last.run.userId
      /\ records[k].image = last.run.imageData

C26_OnlyValidSubmissions ==
  (form.op = "mounted" /\ form.event.by # "none") =>
    (form.event.onSubmit <=>
       /\ trim(form.event.formData.name) # <<>>
       /\ trim(form.event.formData.email) # <<>>
       /\ includes(form.event.formData.email, "@"))

\* the place in the catalog of the first entry with the largest score
FirstBest ==
  CHOOSE i \in 1..Len(probe.scores) :
    /\ probe.scores[i] = BestScore
    /\ \A j \in 1..(i - 1) : probe.scores[j] < BestScore

\* C27: findMatchingFace and findMatchingImage return the largest confidence
\* over the catalog and, of the entries that have it, the first in catalog
\* order; with an empty catalog or no query vector they return isMatch false
\* and confidence 0; attendeeId is present exactly when isMatch is true, and
\* it is then the id of a catalog entry.
C27_FirstOfTheLargest ==
  probe.kind \in {"face", "image"} =>
    /\ (probe.given /\ probe.ready) => probe.result.confidence = BestScore
    /\ (probe.scores = <<>> \/ ~probe.given \/ ~probe.ready) =>
         (~probe.result.isMatch /\ probe.result.confidence = 0)
    /\ probe.result.isMatch <=> probe.result.attendeeId # UNDEF
    /\ probe.result.isMatch => probe.result.attendeeId = probe.ids[FirstBest]

\* two catalog entries with the same score, above the threshold
C27_Witness ==
  /\ probe.kind \in {"face", "image"}
  /\ probe.result.isMatch
  /\ Len(probe.scores) = 2
  /\ probe.scores[1] = probe.scores[2]
  /\ probe.result.attendeeId = probe.ids[1]
  /\ probe.ids[2] # probe.ids[1]

\* the places, in the records a run read, of the ENTRY records written for
\* the run's identity on the current day
TodayEntries(r) ==
  {k \in 1..Len(r.snap.records) :
     /\ r.snap.records[k].id \in DOMAIN owner
     /\ owner[r.snap.records[k].id] = r.userId
     /\ r.snap.records[k].type = TypeEntry
     /\ r.snap.records[k].timestamp = Date(today)}

\* C28: getTodayEntryRecord(attendeeId) returns the most recent record of
\* that attendee with type ENTRY and a timestamp on the current day, and
\* nothing when there is none (only ENTRY records of other attendees, or of
\* earlier days).  Records are newest first: the most recent is the first.
C28_TodayEntryIsTheLatest ==
  \A r \in Decided :
    r.entryType = TypeExit =>
      IF TodayEntries(r) = {} THEN r.todayEntry = NoRecord
      ELSE \E k \in TodayEntries(r) :
             /\ r.todayEntry = r.snap.records[k]
             /\ \A j \in TodayEntries(r) : k <= j

\* a check-out that found today's check-in behind a newer record of
\* somebody else
C28_Witness ==
  /\ last.op = "recorded"
  /\ last.run.entryType = TypeExit
  /\ last.run.todayEntry # NoRecord
  /\ Len(last.run.snap.records) >= 2
  /\ last.run.todayEntry # Head(last.run.snap.records)
  /\ Head(last.run.snap.records).type = TypeEntry

\* C29: a check-out of an identity with no ENTRY record on the current day
\* (the check-in was on an earlier day) is accepted without any pixel
\* comparison; the same-day comparison is made exactly for a check-out that
\* has a check-in of today, and never for an ENTRY.
C29_GateOnlyForSameDayExit ==
  last.op \in {"recorded", "mismatch"} =>
    /\ last.run.comparedGate <=>
         (last.run.entryType = TypeExit /\ TodayEntries(last.run) # {})
    /\ last.run.entryType = TypeEntry => (~last.run.comparedGate /\ last.op = "recorded")
    /\ (last.run.entryType = TypeExit /\ TodayEntries(last.run) = {}) =>
         /\ last.op = "recorded"
         /\ last.run.similarity = UNDEF
         /\ last.run.wroteRecords = 1

\* a check-out recorded without comparison, the check-in being of the day
\* before
C29_Witness ==
  /\ last.op = "recorded"
  /\ last.run.entryType = TypeExit
  /\ ~last.run.comparedGate
  /\ \E k \in 1..Len(last.run.snap.records) :
       /\ last.run.snap.records[k].id \in DOMAIN owner
       /\ owner[last.run.snap.records[k].id] = last.run.userId
       /\ last.run.snap.records[k].type = TypeEntry
       /\ last.run.snap.records[k].timestamp # Date(today)
  /\ Head(records).type = TypeExit

\* C30: a recorded run for an existing identity leaves in the profile, for
\* each kind of vector, the vector it extracted if it extracted one and
\* otherwise the vector of the profile it read (never erased); the record it
\* writes carries exactly the vectors it extracted.
C30_VectorsLastWriteWins ==
  (last.op = "recorded" /\ last.run.via # "new") =>
    LET run == last.run
        was == run.existing
        now == getProfile(profiles, run.userId)
    IN /\ now # UNDEF
       /\ was = getProfile(run.snap.profiles, run.userId)
       /\ Get(now, "imageFeatures") =
            (IF Truthy(run.imageFeatures) THEN run.imageFeatures
             ELSE Get(was, "imageFeatures"))
       /\ Get(now, "faceDescriptor") =
            (IF Truthy(run.faceDescriptor) THEN run.faceDescriptor
             ELSE Get(was, "faceDescriptor"))
       /\ Head(records).imageFeatures = run.imageFeatures
       /\ Head(records).faceDescriptor = run.faceDescriptor

\* a run that extracted an embedding and no face descriptor, for a profile
\* that had both: the embedding is replaced, the descriptor kept
C30_Witness ==
  /\ last.op = "recorded"
  /\ last.run.via # "new"
  /\ Truthy(last.run.imageFeatures)
  /\ ~Truthy(last.run.faceDescriptor)
  /\ Truthy(Get(last.run.existing, "faceDescriptor"))
  /\ last.run.imageFeatures # Get(last.run.existing, "imageFeatures")
  /\ getProfile(profiles, last.run.userId).faceDescriptor
       = last.run.existing.faceDescriptor
  /\ getProfile(profiles, last.run.userId).imageFeatures = last.run.imageFeatures

\* C31: the ids of the profiles are pairwise distinct in every state;
\* updateProfile makes a profile only when no profile of the render has the
\* id given, puts exactly one at the end, and gives it name "", email "",
\* lastImage "" and currentStatus OUT for the properties not passed, the
\* properties passed over them.
C31_ProfileIdsDistinct ==
  /\ \A i, j \in 1..Len(profiles) : profiles[i].id = profiles[j].id => i = j
  /\ last.op = "updateProfile" =>
       LET old == last.prev.profiles
           data == last.profileData
       IN IF \E i \in 1..Len(old) : old[i].id = data.id
          THEN Len(profiles) = Len(old)
          ELSE /\ Len(profiles) = Len(old) + 1
               /\ SubSeq(profiles, 1, Len(old)) = old
               /\ LET made == profiles[Len(profiles)]
                  IN /\ made.id = data.id
                     /\ DOMAIN made = DOMAIN data \cup {"name", "email", "lastImage",
                                                         "currentStatus"}
                     /\ \A k \in DOMAIN data : made[k] = data[k]
                     /\ "name" \notin DOMAIN data => made.name = <<"">>
                     /\ "email" \notin DOMAIN data => made.email = <<"">>
                     /\ "lastImage" \notin DOMAIN data => made.lastImage = <<"">>
                     /\ "currentStatus" \notin DOMAIN data => made.currentStatus = <<"OUT">>

\* a second profile made from a partial update: it has the defaults
C31_Witness ==
  /\ last.op = "updateProfile"
  /\ Len(last.prev.profiles) = 1
  /\ Len(profiles) = 2
  /\ "name" \notin DOMAIN last.profileData
  /\ profiles[2].name = <<"">>
  /\ profiles[2].currentStatus = <<"IN">>

\* the profiles that are candidates of the pixel fallback, the largest of
\* their confidences against a capture and the first place that has it
PixelPlaces(profs) == {i \in 1..Len(profs) : Truthy(profs[i].lastImage)}
PixelLargest(img, profs) ==
  CHOOSE x \in {simpleImageCompare(img, profs[i].lastImage) : i \in PixelPlaces(profs)} :
    \A i \in PixelPlaces(profs) : simpleImageCompare(img, profs[i].lastImage) <= x
PixelFirst(img, profs) ==
  CHOOSE i \in PixelPlaces(profs) :
    /\ simpleImageCompare(img, profs[i].lastImage) = PixelLargest(img, profs)
    /\ \A j \in PixelPlaces(profs) :
         simpleImageCompare(img, profs[j].lastImage) = PixelLargest(img, profs) => i <= j
PixelAnswer(img, profs, result) ==
  IF PixelPlaces(profs) = {} \/ PixelLargest(img, profs) <= 80
  THEN ~result.isMatch
  ELSE /\ result.isMatch
       /\ result.confidence = PixelLargest(img, profs)
       /\ result.attendeeId = profs[PixelFirst(img, profs)].id

C33_BlobsLoadIndependently ==
  last.op = "mount" =>
    /\ (~Corrupt(blobRecords) /\ (Corrupt(blobProfiles) \/ blobProfiles = AbsentBlob)) =>
         records = loadRecords(blobRecords)
    /\ (~Corrupt(blobProfiles) /\ (Corrupt(blobRecords) \/ blobRecords = AbsentBlob)) =>
         profiles = loadProfiles(blobProfiles)

\* C34: in every camera state isActive is true exactly when stream is not
\* null; after a start that failed isActive and isLoading are false and
\* error is the failure's message; after stopCamera the tracks of the stream
\* that was active are stopped.
C34_ActiveIffStream ==
  camera.op = "mounted" =>
    /\ camera.state.isActive <=> camera.state.stream # NULL
    /\ camera.seen.isActive <=> camera.seen.stream # NULL
    /\ camera.event.op = "failed" =>
         /\ ~camera.state.isActive
         /\ ~camera.state.isLoading
         /\ camera.state.stream = NULL
         /\ camera.state.error = (IF camera.event.error.isError
                                  THEN camera.event.error.message
                                  ELSE <<"Camera access denied">>)
    /\ camera.event.op = "stopped" =>
         /\ camera.state = Inactive
         /\ camera.event.was # NULL => camera.event.was \notin camera.live

\* C39: stopCamera is final until the next startCamera. When stopCamera was
\* called while an earlier startCamera was still waiting for the device, and
\* no startCamera was called since, then once that start
\* completes the camera is still inactive and none of its tracks is running.
C39_StopIsFinal ==
  camera.op = "mounted" =>
    ((camera.event.op = "started" /\ camera.event.by \in camera.cancelled) =>
       /\ ~camera.state.isActive
       /\ camera.state.stream = NULL
       /\ Stream(camera.event.by) \notin camera.live)

\* the ids of the elements of a collection, or of the items of a blob
IdsOf(items) == {items[k].id : k \in 1..Len(items)}

\* C35: clearAllData is final.  When a run of a render that held records
\* ends with a write on a store that clearAllData had emptied since the run
\* began, no record and no profile of that render is in the collections or
\* in the blobs afterwards.
C35_ClearIsFinal ==
  (/\ last.op = "recorded"
   /\ last.run.snap.records # <<>>
   /\ last.prev.records = <<>>
   /\ last.prev.profiles = <<>>) =>
    /\ IdsOf(records) \cap IdsOf(last.run.snap.records) = {}
    /\ IdsOf(profiles) \cap IdsOf(last.run.snap.profiles) = {}
    /\ IdsOf(blobRecords.items) \cap IdsOf(last.run.snap.records) = {}
    /\ IdsOf(blobProfiles.items) \cap IdsOf(last.run.snap.profiles) = {}

\* C36: from a store in which no two profiles have e-mails equal ignoring
\* case, and with form input that has a name and an address, no sequence of
\* runs leaves two profiles whose e-mails are equal ignoring case.
C36_EmailsStayDistinct ==
  \A i, j \in 1..Len(profiles) :
    i # j => ~EqualIgnoringCase(profiles[i].email, profiles[j].email)
C36_Witness ==
  /\ last.op = "recorded"
  /\ last.run.via = "email"
  /\ last.run.snap.currentUser.email = MailA2
  /\ last.run.existing.email = MailA
  /\ Len(profiles) = 2
  /\ \E k \in 1..Len(profiles) : profiles[k].email = MailB

\* C37: the accepted transitions of an identity alternate, beginning with
\* the ENTRY of its enrollment.  The record of an enrollment is an ENTRY, and
\* the record a run writes for an identity of which the store holds records
\* at the time of the write is of the other type than the newest of them.
C37_TransitionsAlternate ==
  last.op = "recorded" =>
    LET before == recordsOf(last.prev.records, last.run.userId)
    IN /\ last.run.via = "new" => Head(records).type = TypeEntry
       /\ before # <<>> => Head(records).type # Head(before).type

\* C38: a recorded run that resolved to a profile of its render writes a
\* record with that profile's name and e-mail, whatever the form held, leaves
\* the profile with its id, name and e-mail, and leaves as many profiles as
\* its render held.
C38_ExistingKeepsIdentity ==
  (last.op = "recorded" /\ last.run.via \in {"match", "email"}) =>
    LET stored == getProfile(last.run.snap.profiles, last.run.userId)
        now == getProfile(profiles, last.run.userId)
    IN /\ stored # UNDEF
       /\ Head(records).name = stored.name
       /\ Head(records).email = stored.email
       /\ now # UNDEF
       /\ now.name = stored.name
       /\ now.email = stored.email
       /\ {k \in 1..Len(profiles) : profiles[k].id = stored.id}
            = {k \in 1..Len(last.run.snap.profiles) :
                 last.run.snap.profiles[k].id = stored.id}
       /\ \A k \in 1..Len(last.prev.profiles) :
            last.prev.profiles[k].id = stored.id =>
              /\ last.prev.profiles[k].name = now.name
              /\ last.prev.profiles[k].email = now.email
       /\ Len(profiles) = Len(last.run.snap.profiles)
C38_Witness ==
  /\ last.op = "recorded"
  /\ last.run.via = "match"
  /\ last.run.snap.currentUser = [name |-> Str("Bob"), email |-> MailB]
  /\ Head(records).name = Str("Ann")
  /\ Head(records).email = MailA
  /\ Len(profiles) = 1
  /\ profiles[1].email = MailA

============================================================================
